---- MODULE Spec2Model ----
(***************************************************************************)
(* Model of the xt-orders-dashboard repository.                            *)
(*                                                                         *)
(*   Spec      the trading bot page (src/pages/bot.tsx): Start/Stop clicks, *)
(*             interval timer ticks, order submissions in flight and their *)
(*             completions.                                                *)
(*   SpecAges  the order-age request (src/pages/api/order-ages.ts).         *)
(*   SpecBook  the order-book aggregation (src/pages/api/orderbook.ts).     *)
(*   SpecProxy one request to one of the API routes that stand between the *)
(*             pages and the exchange (src/pages/api, cancel-orders), with  *)
(*             the answers the exchange may give.                          *)
(*   SpecTails the cut-tails button of the orders page.                    *)
(*                                                                         *)
(* The countdown display (countdownRef / countdown) of the bot page is a   *)
(* pure UI read-out and is not part of the model.                          *)
(***************************************************************************)
EXTENDS Integers, Sequences, FiniteSets, TLC

(***************************************************************************)
(* Bounds of the model.                                                    *)
(***************************************************************************)
MaxStarts == 2

MaxSubmissions == 3

MaxOrders == 2

MaxShortLevels == 3

MaxLevels == 21

\* orders page: the longest order list of a pair, the largest keep-count typed
MaxTailOrders == 4

MaxKeep == 2

\* API routes: the longest order-id list of a cancel request, the longest
\* symbol list of an orders request
MaxOrderIds == 3

MaxSymbols == 2

(***************************************************************************)
(* Program constants.                                                      *)
(***************************************************************************)
LogCap == 50

\* part_000 67: useState(100)
DefaultOrdersToKeep == 100

VARIABLES
  \* ---- bot page: React state and refs (bot.tsx 27-43) ----
  isRunning,        \* useState isRunning
  startingSide,     \* useState startingSide
  currentPrice,     \* useState currentPrice: TRUE when a price is known (non-null)
  orderLogs,        \* useState orderLogs, newest first
  cycleCount,       \* useState cycleCount
  intervalRef,      \* useRef intervalRef: id of the interval it holds, 0 = null
  isExecutingRef,   \* useRef isExecutingRef
  currentSideRef,   \* useRef currentSideRef
  \* ---- bot page: the environment of the component ----
  timers,           \* ids of the setInterval timers that are live
  pendingStarts,    \* startBot calls awaiting fetchCurrentPrice: [id, side]
  inflight,         \* placeOrder calls awaiting the response: [id, side, run]
  starts,           \* number of startBot invocations so far
  submitted,        \* number of placeOrder calls started so far
  \* ---- bot page: history of the current run ----
  run,              \* number of runs started so far
  runStart,         \* starting side the current run was started with
  firstSide,        \* side of the first order submitted in this run, or "NONE"
  okSides,          \* sides of this run's orders that succeeded, in order
  lastFailed,       \* pending side left by a failed order that no submission
                    \* and no startBot has followed yet, or "NONE"
  stopped,          \* stopBot has run and startBot was not invoked since
  mounted,          \* the component is mounted; once it is unmounted React
                    \* drops its state and ignores the state setters
  \* ---- API routes: the request and the exchange ----
  request,          \* the HTTP request: [endpoint, method, body]
  upstream,         \* what the exchange does: [first, each], the outcome of
                    \* the route's first call and of its i-th per-item call
  calls,            \* the calls made to the exchange so far, in order
  reply,            \* the response of the ticker-price, symbol-info, orders
                    \* and cancel-orders routes: [status, body]; 0 = none yet
  \* ---- order-age request (order-ages.ts) ----
  orders,           \* the handler's orders: the open orders it found in the
                    \* exchange's response
  now,              \* Date.now(), in milliseconds
  pairMap,          \* the handler's pairMap: [symbol, ages] in insertion order
  agesResponse,     \* the response: [status, body]; status 0 = not answered yet
  \* ---- order-book request (orderbook.ts) ----
  orderbook,        \* the handler's orderbookData: the depth snapshot
                    \* [bids, asks] of the response, levels <<price, qty>>
  bookResponse,     \* the response: [status, success, aggregated]; 0 = none yet
  \* ---- orders page (part_000): the cut-tails button of one pair ----
  pairOrders,       \* orders[pair.symbol]: the open orders of the pair
  ordersToKeep,     \* useState ordersToKeep
  cancelRequest     \* the click's outcome: [state, orderIds]; state is "idle"
                    \* before the click, "sent" when the click posted the
                    \* orderIds to /api/cancel-orders, "none" when it posted
                    \* nothing

botVars == <<isRunning, startingSide, currentPrice, orderLogs, cycleCount,
             intervalRef, isExecutingRef, currentSideRef, timers,
             pendingStarts, inflight, starts, submitted, run, runStart,
             firstSide, okSides, lastFailed, stopped, mounted>>

agesVars == <<orders, now, pairMap, agesResponse>>

bookVars == <<orderbook, bookResponse>>

proxyVars == <<request, upstream, calls, reply>>

tailVars == <<pairOrders, ordersToKeep, cancelRequest>>

vars == <<botVars, agesVars, bookVars, proxyVars, tailVars>>

Sides == {"BUY", "SELL"}

Outcomes == {"success", "rejected", "threw"}

\* bot.tsx 158: const nextSide = side === 'BUY' ? 'SELL' : 'BUY'
NextSide(side) == IF side = "BUY" THEN "SELL" ELSE "BUY"

\* The log without the slice
PushLogUncapped(entry, prev) == <<entry>> \o prev

\* bot.tsx 125, 136: [logEntry, ...prev].slice(0, 50)
PushLog(entry, prev) ==
  LET all == <<entry>> \o prev
  IN  SubSeq(all, 1, IF Len(all) < LogCap THEN Len(all) ELSE LogCap)

\* bot.tsx 116-123, 129-135: the log entry of a completed placeOrder call
LogEntry(side, outcome) ==
  [side |-> side, status |-> IF outcome = "success" THEN "success" ELSE "error"]

BotInit ==
  /\ isRunning = FALSE
  /\ startingSide = "SELL"
  /\ currentPrice = FALSE
  /\ orderLogs = <<>>
  /\ cycleCount = 0
  /\ intervalRef = 0
  /\ isExecutingRef = FALSE
  /\ currentSideRef = "SELL"
  /\ timers = {}
  /\ pendingStarts = {}
  /\ inflight = {}
  /\ starts = 0
  /\ submitted = 0
  /\ run = 0
  /\ runStart = "SELL"
  /\ firstSide = "NONE"
  /\ okSides = <<>>
  /\ lastFailed = "NONE"
  /\ stopped = FALSE
  /\ mounted = TRUE

\* bot.tsx 291-292: the starting-side select, disabled while running
SetStartingSide(s) ==
  /\ mounted
  /\ ~isRunning
  /\ s # startingSide
  /\ startingSide' = s
  /\ UNCHANGED <<isRunning, currentPrice, orderLogs, cycleCount, intervalRef,
                 isExecutingRef, currentSideRef, timers, pendingStarts,
                 inflight, starts, submitted, run, runStart, firstSide,
                 okSides, lastFailed, stopped, mounted>>

\* bot.tsx 195-206: the body of startBot after the optional await, for the
\* startBot call `id` whose closure holds starting side `side`.  A run lasts
\* from the startBot body that sets isRunning to the next stopBot; a startBot
\* body that resumes while the bot already runs continues that run.
StartBody(id, side) ==
  /\ isRunning' = IF mounted THEN TRUE ELSE isRunning
  /\ cycleCount' = IF mounted THEN 0 ELSE cycleCount
  /\ currentSideRef' = side
  /\ intervalRef' = id
  /\ timers' = timers \cup {id}
  /\ run' = IF isRunning THEN run ELSE run + 1
  /\ runStart' = IF isRunning /\ firstSide # "NONE" THEN runStart ELSE side
  /\ firstSide' = IF isRunning THEN firstSide ELSE "NONE"
  /\ okSides' = IF isRunning THEN okSides ELSE <<>>
  /\ lastFailed' = "NONE"

\* bot.tsx 190-207, 343-349: a click on Start Bot (rendered while !isRunning).
\* With a known price the body runs at once; otherwise the call awaits
\* fetchCurrentPrice and the button stays clickable meanwhile.
StartClick ==
  /\ mounted
  /\ ~isRunning
  /\ starts < MaxStarts
  /\ starts' = starts + 1
  /\ stopped' = FALSE
  /\ IF currentPrice
       THEN /\ StartBody(starts + 1, startingSide)
            /\ UNCHANGED pendingStarts
       ELSE /\ pendingStarts' =
                 pendingStarts \cup {[id |-> starts + 1, side |-> startingSide]}
            /\ UNCHANGED <<isRunning, cycleCount, currentSideRef, intervalRef,
                           timers, run, runStart, firstSide, okSides,
                           lastFailed>>
  /\ UNCHANGED <<startingSide, currentPrice, orderLogs, isExecutingRef,
                 inflight, submitted, mounted>>

\* bot.tsx 192, 67-81: fetchCurrentPrice returns (price stored when the
\* response is good, errors swallowed) and startBot resumes
StartResume(p, priceOk) ==
  /\ p \in pendingStarts
  /\ pendingStarts' = pendingStarts \ {p}
  /\ currentPrice' = (currentPrice \/ (priceOk /\ mounted))
  /\ StartBody(p.id, p.side)
  /\ UNCHANGED <<startingSide, orderLogs, isExecutingRef, inflight, starts,
                 submitted, stopped, mounted>>

\* bot.tsx 209-221: stopBot (Stop Bot is rendered while isRunning)
StopBot ==
  /\ mounted
  /\ isRunning
  /\ isRunning' = FALSE
  /\ timers' = timers \ {intervalRef}
  /\ intervalRef' = 0
  /\ isExecutingRef' = FALSE
  /\ stopped' = TRUE
  /\ UNCHANGED <<startingSide, currentPrice, orderLogs, cycleCount,
                 currentSideRef, pendingStarts, inflight, starts, submitted,
                 run, runStart, firstSide, okSides, lastFailed, mounted>>

\* bot.tsx 45-55: the cleanup of the component's mount effect clears the
\* interval that intervalRef holds; calls that are awaiting go on
Unmount ==
  /\ mounted
  /\ mounted' = FALSE
  /\ timers' = timers \ {intervalRef}
  /\ UNCHANGED <<isRunning, startingSide, currentPrice, orderLogs, cycleCount,
                 intervalRef, isExecutingRef, currentSideRef, pendingStarts,
                 inflight, starts, submitted, run, runStart, firstSide,
                 okSides, lastFailed, stopped>>

\* bot.tsx 202-206, 141-154: the interval callback of timer t runs
\* executeCycle() up to the await of placeOrder
Tick(t) ==
  /\ t \in timers
  /\ IF isExecutingRef
       THEN UNCHANGED botVars
       ELSE /\ submitted < MaxSubmissions
            /\ isExecutingRef' = TRUE
            /\ submitted' = submitted + 1
            /\ inflight' = inflight \cup
                 {[id |-> submitted + 1, side |-> currentSideRef, run |-> run]}
            /\ firstSide' = IF isRunning /\ firstSide = "NONE"
                              THEN currentSideRef
                              ELSE firstSide
            /\ lastFailed' = "NONE"
            /\ UNCHANGED <<isRunning, startingSide, currentPrice, orderLogs,
                           cycleCount, intervalRef, currentSideRef, timers,
                           pendingStarts, starts, run, runStart, okSides,
                           stopped, mounted>>

\* bot.tsx 114-138, 154-169: the response of submission s arrives; placeOrder
\* logs it and returns, executeCycle alternates the side on success and
\* clears the flag in its finally block
Complete(s, outcome) ==
  /\ s \in inflight
  /\ inflight' = inflight \ {s}
  /\ orderLogs' = IF mounted
                    THEN PushLog(LogEntry(s.side, outcome), orderLogs)
                    ELSE orderLogs
  /\ IF outcome = "success"
       THEN /\ currentSideRef' = NextSide(s.side)
            /\ cycleCount' = IF mounted THEN cycleCount + 1 ELSE cycleCount
            /\ okSides' = IF isRunning /\ s.run = run
                            THEN Append(okSides, s.side)
                            ELSE okSides
            /\ UNCHANGED lastFailed
       ELSE /\ lastFailed' = currentSideRef
            /\ UNCHANGED <<currentSideRef, cycleCount, okSides>>
  /\ isExecutingRef' = FALSE
  /\ UNCHANGED <<isRunning, startingSide, currentPrice, intervalRef, timers,
                 pendingStarts, starts, submitted, run, runStart, firstSide,
                 stopped, mounted>>

\* bot.tsx 57-65, 67-81: while the bot runs, the price effect polls
\* fetchCurrentPrice, which stores a good response
PriceFetched ==
  /\ mounted
  /\ isRunning
  /\ ~currentPrice
  /\ currentPrice' = TRUE
  /\ UNCHANGED <<isRunning, startingSide, orderLogs, cycleCount, intervalRef,
                 isExecutingRef, currentSideRef, timers, pendingStarts,
                 inflight, starts, submitted, run, runStart, firstSide,
                 okSides, lastFailed, stopped, mounted>>

\* clearLogs without setCycleCount(0)
ClearLogsKeepingCount ==
  /\ mounted
  /\ orderLogs # <<>>
  /\ orderLogs' = <<>>
  /\ UNCHANGED <<isRunning, startingSide, currentPrice, cycleCount,
                 intervalRef, isExecutingRef, currentSideRef, timers,
                 pendingStarts, inflight, starts, submitted, run, runStart,
                 firstSide, okSides, lastFailed, stopped, mounted>>

\* bot.tsx 223-226: clearLogs
ClearLogs ==
  /\ mounted
  /\ orderLogs # <<>> \/ cycleCount # 0
  /\ orderLogs' = <<>>
  /\ cycleCount' = 0
  /\ UNCHANGED <<isRunning, startingSide, currentPrice, intervalRef,
                 isExecutingRef, currentSideRef, timers, pendingStarts,
                 inflight, starts, submitted, run, runStart, firstSide,
                 okSides, lastFailed, stopped, mounted>>

(***************************************************************************)
(* Numbers of the order-age request.  Timestamps are JavaScript numbers of *)
(* the size of 1.7 * 10^12; they are integers here, held exactly as        *)
(* hi * Base + lo, or NaN.                                                  *)
(***************************************************************************)
Base == 1000 * 1000

Num(hi, lo) == [nan |-> FALSE, hi |-> hi, lo |-> lo]

NaN == [nan |-> TRUE, hi |-> 0, lo |-> 0]

Zero == Num(0, 0)

FromInt(k) == Num(k \div Base, k % Base)

\* a < b, a >= b on numbers; a comparison with NaN is false
JsLt(a, b) ==
  /\ ~a.nan
  /\ ~b.nan
  /\ (a.hi < b.hi \/ (a.hi = b.hi /\ a.lo < b.lo))

JsGe(a, b) ==
  /\ ~a.nan
  /\ ~b.nan
  /\ ~(a.hi < b.hi \/ (a.hi = b.hi /\ a.lo < b.lo))

\* a * k for a small factor k
Times(a, k) ==
  IF a.nan THEN NaN
  ELSE Num(a.hi * k + ((a.lo * k) \div Base), (a.lo * k) % Base)

\* a + d for a digit d
PlusDigit(a, d) ==
  IF a.lo + d < Base THEN Num(a.hi, a.lo + d)
  ELSE Num(a.hi + 1, a.lo + d - Base)

\* a - b for a >= b
Minus(a, b) ==
  IF a.lo >= b.lo THEN Num(a.hi - b.hi, a.lo - b.lo)
  ELSE Num(a.hi - b.hi - 1, a.lo + Base - b.lo)

(***************************************************************************)
(* The order-age request: src/pages/api/order-ages.ts                      *)
(***************************************************************************)

\* order-ages.ts 72: the literal 1e12
SecondsLimit == Num(Base, 0)

\* order-ages.ts 72-73: the factor between seconds and milliseconds
MsPerSecond == 1000

\* order-ages.ts 91: max of the last bucket
Infinity == -1

\* bucketRanges with the second bucket starting one second late
bucketRangesGap ==
  << [min |-> 0,     max |-> 60],
     [min |-> 61,    max |-> 300],
     [min |-> 300,   max |-> 900],
     [min |-> 900,   max |-> 3600],
     [min |-> 3600,  max |-> 7200],
     [min |-> 7200,  max |-> 14400],
     [min |-> 14400, max |-> 86400],
     [min |-> 86400, max |-> Infinity] >>

\* order-ages.ts 83-92: bucketRanges, in seconds
bucketRanges ==
  << [min |-> 0,     max |-> 60],
     [min |-> 60,    max |-> 300],
     [min |-> 300,   max |-> 900],
     [min |-> 900,   max |-> 3600],
     [min |-> 3600,  max |-> 7200],
     [min |-> 7200,  max |-> 14400],
     [min |-> 14400, max |-> 86400],
     [min |-> 86400, max |-> Infinity] >>

\* Values of the JSON of a request body or of an exchange response: absent,
\* null, a boolean, a number, a string (a sequence of characters), an array
\* (a sequence of items) or an object (a function from its keys)
Undefined == [t |-> "undefined"]

Null == [t |-> "null"]

BoolValue(b) == [t |-> "boolean", b |-> b]

NumberValue(n) == [t |-> "number", n |-> n]

StringValue(chars) == [t |-> "string", s |-> chars]

ArrayValue(items) == [t |-> "array", a |-> items]

ObjectValue(fields) == [t |-> "object", f |-> fields]

\* The outcome of an exchange call that throws (its promise rejects)
Thrown == [t |-> "thrown"]

\* v.name, for a value v that is not null or undefined
Field(v, name) ==
  IF v.t = "object" /\ name \in DOMAIN v.f THEN v.f[name] ELSE Undefined

\* Array.isArray(v)
IsArray(v) == v.t = "array"

\* JavaScript truthiness of such a value (order-ages.ts 66-67)
Truthy(v) ==
  CASE v.t = "undefined" -> FALSE
    [] v.t = "null" -> FALSE
    [] v.t = "boolean" -> v.b
    [] v.t = "number" -> ~v.n.nan /\ v.n # Zero
    [] v.t = "string" -> v.s # <<>>
    [] v.t = "array" -> TRUE
    [] v.t = "object" -> TRUE

\* An HTTP request to a route
Request(endpoint, method, body) ==
  [endpoint |-> endpoint, method |-> method, body |-> body]

\* A call to the exchange's client: the function called and its arguments
Call(fn, args) == [fn |-> fn, args |-> args]

\* The exchange when a route makes no per-item calls
NoItems == <<>>

DigitValue ==
  [c \in {"0", "1", "2", "3", "4", "5", "6", "7", "8", "9"} |->
     CASE c = "0" -> 0 [] c = "1" -> 1 [] c = "2" -> 2 [] c = "3" -> 3
       [] c = "4" -> 4 [] c = "5" -> 5 [] c = "6" -> 6 [] c = "7" -> 7
       [] c = "8" -> 8 [] c = "9" -> 9]

\* The value of the longest prefix of digits of chars, read after acc
RECURSIVE DigitsPrefix(_, _)
DigitsPrefix(chars, acc) ==
  IF chars = <<>> \/ Head(chars) \notin DOMAIN DigitValue THEN acc
  ELSE DigitsPrefix(Tail(chars),
                    PlusDigit(Times(acc, 10), DigitValue[Head(chars)]))

\* order-ages.ts 70: parseInt(timestamp): the leading decimal digits, NaN when
\* the string does not start with a digit
ParseInt(chars) ==
  IF chars = <<>> \/ Head(chars) \notin DOMAIN DigitValue THEN NaN
  ELSE DigitsPrefix(chars, Zero)

\* The timestamp taken from createTime alone, without the fallbacks
PickTimestampCreateTime(order) == order.createTime

\* order-ages.ts 66: order.createTime || order.time || order.updateTime
PickTimestamp(order) ==
  IF Truthy(order.createTime) THEN order.createTime
  ELSE IF Truthy(order.time) THEN order.time
  ELSE order.updateTime

\* order-ages.ts 70: typeof timestamp === 'string' ? parseInt(timestamp) : timestamp
TimestampMs(timestamp) ==
  IF timestamp.t = "string" THEN ParseInt(timestamp.s) ELSE timestamp.n

\* The timestamp taken as milliseconds whatever its size
OrderTimeAsIs(timestampMs) == timestampMs

\* order-ages.ts 72: timestampMs < 1e12 ? timestampMs * 1000 : timestampMs
OrderTime(timestampMs) ==
  IF JsLt(timestampMs, SecondsLimit) THEN Times(timestampMs, MsPerSecond)
  ELSE timestampMs

\* The age without the clamp at 0: (now - orderTime) / 1000
AgeMsUnclamped(nowMs, orderTime) ==
  IF orderTime.nan THEN NaN ELSE Minus(nowMs, orderTime)

\* order-ages.ts 73: Math.max(0, (now - orderTime) / 1000).  The age is kept in
\* milliseconds, so that it stays an integer; the division by 1000 is
\* done where the age is compared with a bucket bound given in seconds.
AgeMs(nowMs, orderTime) ==
  IF orderTime.nan THEN NaN
  ELSE IF JsGe(orderTime, nowMs) THEN Zero
  ELSE Minus(nowMs, orderTime)

\* order-ages.ts 69-73: the age of an order whose timestamp is truthy
AgeOf(order, nowMs) ==
  AgeMs(nowMs, OrderTime(TimestampMs(PickTimestamp(order))))

\* InBucket with the bounds the other way round: age > min && age <= max
InBucketUpperInclusive(age, bucket) ==
  /\ JsLt(FromInt(bucket.min * MsPerSecond), age)
  /\ IF bucket.max = Infinity THEN ~age.nan
     ELSE ~JsLt(FromInt(bucket.max * MsPerSecond), age) /\ ~age.nan

\* order-ages.ts 108: age >= bucket.min && age < bucket.max
InBucket(age, bucket) ==
  /\ JsGe(age, FromInt(bucket.min * MsPerSecond))
  /\ IF bucket.max = Infinity THEN ~age.nan
     ELSE JsLt(age, FromInt(bucket.max * MsPerSecond))

\* order-ages.ts 107-112: the bucket the inner loop increments for age: the
\* first one, from index k on, that holds it; 0 when the loop ends without one
RECURSIVE FirstBucket(_, _)
FirstBucket(age, k) ==
  IF k > Len(bucketRanges) THEN 0
  ELSE IF InBucket(age, bucketRanges[k]) THEN k
  ELSE FirstBucket(age, k + 1)

\* order-ages.ts 98-113: the counts of the buckets after the loop over ages
RECURSIVE CountBuckets(_, _)
CountBuckets(ages, counts) ==
  IF ages = <<>> THEN counts
  ELSE LET k == FirstBucket(Head(ages), 1)
       IN  CountBuckets(Tail(ages),
             IF k = 0 THEN counts ELSE [counts EXCEPT ![k] = @ + 1])

\* order-ages.ts 63: order.symbol.toUpperCase()
ToUpperCase(symbol) ==
  CASE symbol = "deps_btc" -> "DEPS_BTC"
    [] symbol = "deuro_usdt" -> "DEURO_USDT"
    [] OTHER -> symbol

\* Index of the entry of pairMap for symbol, 0 when it has none
\* (order-ages.ts 75: pairMap.has(symbol))
EntryIndex(entries, symbol) ==
  IF \E i \in 1..Len(entries) : entries[i].symbol = symbol
    THEN CHOOSE i \in 1..Len(entries) : entries[i].symbol = symbol
    ELSE 0

\* order-ages.ts 60-80: the loop that groups the ages by symbol; pairMap is a
\* Map, which keeps its keys in insertion order
RECURSIVE GroupOrders(_, _, _)
GroupOrders(orderList, nowMs, entries) ==
  IF orderList = <<>> THEN entries
  ELSE
    LET order == Head(orderList)
        rest == Tail(orderList)
    IN  IF order.symbol = "" THEN GroupOrders(rest, nowMs, entries)
        ELSE IF ~Truthy(PickTimestamp(order))
          THEN GroupOrders(rest, nowMs, entries)
        ELSE
          LET symbol == ToUpperCase(order.symbol)
              age == AgeOf(order, nowMs)
              i == EntryIndex(entries, symbol)
          IN  GroupOrders(rest, nowMs,
                IF i = 0
                  THEN Append(entries, [symbol |-> symbol, ages |-> <<age>>])
                  ELSE [entries EXCEPT ![i].ages = Append(@, age)])

\* order-ages.ts 123: a.symbol.localeCompare(b.symbol) < 0 on the symbols of
\* the tracked pairs
SymbolRank(symbol) ==
  CASE symbol = "DEPS_BTC" -> 1
    [] symbol = "DEPS_USDT" -> 2
    [] symbol = "DEURO_BTC" -> 3
    [] symbol = "DEURO_USDT" -> 4
    [] OTHER -> 0

\* order-ages.ts 123: result.sort(...), a stable sort
RECURSIVE InsertSorted(_, _)
InsertSorted(entry, sorted) ==
  IF sorted = <<>> THEN <<entry>>
  ELSE IF SymbolRank(entry.symbol) < SymbolRank(Head(sorted).symbol)
    THEN <<entry>> \o sorted
  ELSE <<Head(sorted)>> \o InsertSorted(entry, Tail(sorted))

\* The result left in the insertion order of pairMap
SortBySymbolUnsorted(result) == result

RECURSIVE SortBySymbol(_)
SortBySymbol(result) ==
  IF result = <<>> THEN <<>>
  ELSE InsertSorted(result[Len(result)],
                    SortBySymbol(SubSeq(result, 1, Len(result) - 1)))

\* order-ages.ts 95-120: one PairAgeData per entry of pairMap
PairAgeData(entry) ==
  [symbol |-> entry.symbol,
   buckets |-> CountBuckets(entry.ages, [k \in 1..Len(bucketRanges) |-> 0]),
   totalOrders |-> Len(entry.ages)]

\* order-ages.ts 56-125: the body of the response
AgeResult(entries) ==
  SortBySymbol([i \in 1..Len(entries) |-> PairAgeData(entries[i])])

\* The instant of the request: 1.7 * 10^12 ms
NowMs == Num(1700 * 1000, 0)

\* Timestamp fields of orders created k milliseconds (seconds) before NowMs,
\* given in milliseconds (in seconds)
MsBefore(k) == NumberValue(Minus(NowMs, FromInt(k)))

SecondsBefore(k) == NumberValue(Minus(Num(1700, 0), FromInt(k)))

\* Ages in milliseconds at and just below every bucket bound
AgeSamples ==
  {0} \cup {bucketRanges[k].min * MsPerSecond : k \in 2..Len(bucketRanges)}
      \cup {bucketRanges[k].min * MsPerSecond - 1 : k \in 2..Len(bucketRanges)}

\* createTime values of the orders of the model: every sampled age, a creation
\* time after NowMs, timestamps in seconds, string timestamps (digits, and one
\* that parseInt cannot read), and absent or zero ones
CreateTimes ==
  {MsBefore(a) : a \in AgeSamples}
    \cup {NumberValue(Num(1700 * 1000, 5000))}
    \cup {SecondsBefore(59), SecondsBefore(60), SecondsBefore(86400)}
    \cup {StringValue(<<"1", "6", "9", "9", "9", "9", "9", "7", "0", "0">>),
          StringValue(<<"n", "/", "a">>)}
    \cup {Undefined, NumberValue(Zero)}

Order(symbol, createTime, time, updateTime) ==
  [symbol |-> symbol, createTime |-> createTime, time |-> time,
   updateTime |-> updateTime]

\* The open orders the exchange may return (order-ages.ts 5-17)
OrderInputs ==
  {Order("deps_btc", c, Undefined, Undefined) : c \in CreateTimes}
    \cup {Order(s, c, Undefined, Undefined) :
            s \in {"", "DEPS_BTC", "deuro_usdt"},
            c \in {MsBefore(60 * 1000), MsBefore(30 * 1000), Undefined}}
    \cup {Order("deps_btc", c, t, u) :
            c \in {Undefined, NumberValue(Zero)},
            t \in {Undefined, MsBefore(300 * 1000)},
            u \in {Undefined, SecondsBefore(3600)}}

OrderLists == UNION {[1..n -> OrderInputs] : n \in 0..MaxOrders}

\* order-ages.ts 46-54: the orders the handler finds in the response
OpenOrdersOf(response) ==
  IF Truthy(response) /\ Truthy(Field(response, "result"))
    THEN LET result == Field(response, "result")
         IN  IF Truthy(Field(result, "list")) THEN Field(result, "list").a
             ELSE IF IsArray(result) THEN result.a
             ELSE <<>>
  ELSE IF IsArray(response) THEN response.a
  ELSE IF Truthy(response) /\ Truthy(Field(response, "list"))
    THEN Field(response, "list").a
  ELSE <<>>

\* The response of getOpenOrders that carries the orders of orderList as its
\* result
OpenOrdersResponse(orderList) ==
  ObjectValue([result |-> ArrayValue(orderList)])

\* order-ages.ts 36-38, 126-131: the answers without a body
AgesError(status) == [status |-> status, body |-> <<>>]

AgesIdle ==
  /\ orders = <<>>
  /\ now = NowMs
  /\ pairMap = <<>>
  /\ agesResponse = [status |-> 0, body |-> <<>>]

AgesInit ==
  /\ AgesIdle
  /\ request = Request("order-ages", "GET", Undefined)
  /\ upstream \in [first : {OpenOrdersResponse(l) : l \in OrderLists},
                    each : {NoItems}]
  /\ calls = <<>>
  /\ reply = [status |-> 0]

\* order-ages.ts 32-132: the handler
OrderAges ==
  /\ request.endpoint = "order-ages"
  /\ agesResponse.status = 0
  /\ IF request.method # "GET"
       THEN /\ agesResponse' = AgesError(405)
            /\ UNCHANGED <<orders, pairMap, calls>>
     ELSE
       /\ calls' = Append(calls, Call("getOpenOrders", <<>>))
       /\ IF upstream.first = Thrown
            THEN /\ agesResponse' = AgesError(500)
                 /\ UNCHANGED <<orders, pairMap>>
          ELSE
            /\ orders' = OpenOrdersOf(upstream.first)
            /\ pairMap' = GroupOrders(orders', now, <<>>)
            /\ agesResponse' = [status |-> 200, body |-> AgeResult(pairMap')]
  /\ UNCHANGED <<now, request, upstream>>

AgesNext == OrderAges /\ UNCHANGED <<botVars, bookVars, reply, tailVars>>

(***************************************************************************)
(* The order-book request: src/pages/api/orderbook.ts.  Prices and          *)
(* quantities are the parsed numbers of the feed, in whole ticks and lots;  *)
(* quotients are kept exactly, as fractions [num, den], den = 0 standing for *)
(* the NaN or Infinity of a division by zero.                               *)
(***************************************************************************)

\* orderbook.ts 64: the 2% of twoPercentThreshold = midPrice * 0.02
BandPercent == 2

\* orderbook.ts 88, 97: Math.min(20, prices.length - 1)
GapLevelLimit == 20

\* orderbook.ts 106-107: slice(0, 20)
DepthLevelLimit == 20

Frac(num, den) == [num |-> num, den |-> den]

\* x < y for fractions with positive denominators
FracLt(x, y) == x.num * y.den < y.num * x.den

\* Math.max(x, y)
FracMax(x, y) == IF FracLt(x, y) THEN y ELSE x

Min(a, b) == IF a < b THEN a ELSE b

\* orderbook.ts 48-51: the prices and the quantities of one side
PricesOf(side) == [i \in 1..Len(side) |-> side[i][1]]

QuantitiesOf(side) == [i \in 1..Len(side) |-> side[i][2]]

\* orderbook.ts 58: midPrice = (bestAsk + bestBid) / 2
MidPrice(bestBid, bestAsk) == Frac(bestAsk + bestBid, 2)

\* orderbook.ts 61: spread = ((bestAsk - bestBid) / midPrice) * 100
SpreadOf(bestBid, bestAsk) ==
  Frac((bestAsk - bestBid) * 2 * 100, bestAsk + bestBid)

\* The bid test with the threshold added to the mid price instead of
\* subtracted: bidPrices[i] >= midPrice + midPrice * pct / 100
BidInBandPlus(price, mid, pct) ==
  price * mid.den * 100 >= mid.num * (100 + pct)

\* orderbook.ts 64-65, 70: bidPrices[i] >= midPrice - midPrice * pct / 100, for
\* the band percentage pct (the code's band is BandPercent)
BidInBand(price, mid, pct) ==
  price * mid.den * 100 >= mid.num * (100 - pct)

\* orderbook.ts 64-66, 79: askPrices[i] <= midPrice + midPrice * pct / 100
AskInBand(price, mid, pct) ==
  price * mid.den * 100 <= mid.num * (100 + pct)

\* The loop of orderbook.ts 69-75 that skips a level outside the band instead
\* of stopping at it
RECURSIVE CumulativeQtyBidsNoBreak(_, _, _, _, _)
CumulativeQtyBidsNoBreak(prices, quantities, i, mid, pct) ==
  IF i > Len(prices) THEN 0
  ELSE (IF BidInBand(prices[i], mid, pct) THEN quantities[i] ELSE 0)
         + CumulativeQtyBidsNoBreak(prices, quantities, i + 1, mid, pct)

\* orderbook.ts 68-75: the loop over the bids from level i on
RECURSIVE CumulativeQtyBids(_, _, _, _, _)
CumulativeQtyBids(prices, quantities, i, mid, pct) ==
  IF i > Len(prices) THEN 0
  ELSE IF BidInBand(prices[i], mid, pct)
    THEN quantities[i] + CumulativeQtyBids(prices, quantities, i + 1, mid, pct)
  ELSE 0

\* orderbook.ts 77-84: the loop over the asks from level i on
RECURSIVE CumulativeQtyAsks(_, _, _, _, _)
CumulativeQtyAsks(prices, quantities, i, mid, pct) ==
  IF i > Len(prices) THEN 0
  ELSE IF AskInBand(prices[i], mid, pct)
    THEN quantities[i] + CumulativeQtyAsks(prices, quantities, i + 1, mid, pct)
  ELSE 0

\* orderbook.ts 88: bidsToCheck = Math.min(20, bidPrices.length - 1)
LevelsToCheck(prices) == Min(GapLevelLimit, Len(prices) - 1)

\* orderbook.ts 87-94: the loop over the bids, levels i..toCheck (1-based)
RECURSIVE MaxGapBids(_, _, _, _)
MaxGapBids(prices, i, toCheck, maxGap) ==
  IF i > toCheck THEN maxGap
  ELSE MaxGapBids(prices, i + 1, toCheck,
         IF prices[i] > 0
           THEN FracMax(maxGap, Frac(prices[i] - prices[i + 1], prices[i]))
           ELSE maxGap)

\* orderbook.ts 96-103: the loop over the asks
RECURSIVE MaxGapAsks(_, _, _, _)
MaxGapAsks(prices, i, toCheck, maxGap) ==
  IF i > toCheck THEN maxGap
  ELSE MaxGapAsks(prices, i + 1, toCheck,
         IF prices[i] > 0
           THEN FracMax(maxGap, Frac(prices[i + 1] - prices[i], prices[i]))
           ELSE maxGap)

\* The sum without the slice: every quantity of the side, whatever n
RECURSIVE SumFirstUnsliced(_, _)
SumFirstUnsliced(quantities, n) ==
  IF quantities = <<>> THEN 0
  ELSE Head(quantities) + SumFirstUnsliced(Tail(quantities), n)

\* orderbook.ts 106-107: quantities.slice(0, 20).reduce((sum, qty) => sum + qty, 0)
RECURSIVE SumFirst(_, _)
SumFirst(quantities, n) ==
  IF n = 0 \/ quantities = <<>> THEN 0
  ELSE Head(quantities) + SumFirst(Tail(quantities), n - 1)

\* orderbook.ts 121-122: maxGap * 100
Percent(x) == Frac(x.num * 100, x.den)

\* orderbook.ts 47-132: aggregateOrderBook for a book with two non-empty sides
AggregateOrderBook(book) ==
  LET bidPrices == PricesOf(book.bids)
      bidQuantities == QuantitiesOf(book.bids)
      askPrices == PricesOf(book.asks)
      askQuantities == QuantitiesOf(book.asks)
      midPrice == MidPrice(bidPrices[1], askPrices[1])
  IN  [midPrice |-> midPrice,
       spread |-> SpreadOf(bidPrices[1], askPrices[1]),
       cumulativeQty2Percent |->
         [bids |-> CumulativeQtyBids(bidPrices, bidQuantities, 1, midPrice,
                                     BandPercent),
          asks |-> CumulativeQtyAsks(askPrices, askQuantities, 1, midPrice,
                                     BandPercent)],
       maxGapPercent |->
         [bids |-> Percent(MaxGapBids(bidPrices, 1, LevelsToCheck(bidPrices),
                                      Frac(0, 1))),
          asks |-> Percent(MaxGapAsks(askPrices, 1, LevelsToCheck(askPrices),
                                      Frac(0, 1)))],
       cumulativeQtyLevel20 |->
         [bids |-> SumFirst(bidQuantities, DepthLevelLimit),
          asks |-> SumFirst(askQuantities, DepthLevelLimit)],
       totalOrders |-> [bids |-> Len(book.bids), asks |-> Len(book.asks)]]

\* The aggregated field of a response that carries none
NoMetrics == [error |-> TRUE]

\* Depth snapshots of the model.  Short sides are all the lists of up to
\* MaxShortLevels levels over a few levels, sorted or not (the feed's order is
\* not verified), and some sides with a level of price 0; long sides are
\* ladders of one tick per level with one wider jump after level `jumpAt`
\* (none when jumpAt = 0).
BidLevels == {<<1000, 1>>, <<980, 2>>, <<979, 4>>}

AskLevels == {<<1000, 1>>, <<1020, 2>>, <<1021, 4>>}

ZeroBidSides ==
  { << <<0, 8>> >>, << <<0, 8>>, <<1000, 1>> >>,
    << <<1000, 1>>, <<0, 8>>, <<980, 2>> >> }

ZeroAskSides ==
  { << <<0, 8>> >>, << <<0, 8>>, <<1000, 1>> >>,
    << <<1000, 1>>, <<0, 8>>, <<1020, 2>> >> }

BidLadder(n, jumpAt) ==
  [i \in 1..n |->
     <<1000 - (i - 1) - (IF jumpAt > 0 /\ i > jumpAt THEN 7 ELSE 0), 1>>]

AskLadder(n, jumpAt) ==
  [i \in 1..n |->
     <<1000 + (i - 1) + (IF jumpAt > 0 /\ i > jumpAt THEN 7 ELSE 0), 1>>]

LongLengths == (MaxLevels - 2)..MaxLevels

JumpPlaces == {0, 5, 15} \cup (MaxLevels - 3)..(MaxLevels - 1)

BidSides ==
  UNION {[1..n -> BidLevels] : n \in 0..MaxShortLevels}
    \cup ZeroBidSides
    \cup {BidLadder(n, j) : n \in LongLengths, j \in JumpPlaces}

AskSides ==
  UNION {[1..n -> AskLevels] : n \in 0..MaxShortLevels}
    \cup ZeroAskSides
    \cup {AskLadder(n, j) : n \in LongLengths, j \in JumpPlaces}

\* The response of getSymbolDepthInfo that carries the snapshot book
DepthResponse(book) ==
  ObjectValue([result |-> ObjectValue([bids |-> ArrayValue(book.bids),
                                       asks |-> ArrayValue(book.asks)])])

\* A body with a symbol
SymbolBody == ObjectValue([symbol |-> StringValue(<<"d", "e", "p", "s">>)])

\* orderbook.ts 157: the test for an invalid response format
InvalidDepthFormat(response) ==
  \/ ~Truthy(response)
  \/ ~Truthy(Field(response, "result"))
  \/ ~Truthy(Field(Field(response, "result"), "bids"))
  \/ ~Truthy(Field(Field(response, "result"), "asks"))

\* orderbook.ts 43: !orderbook.bids.length || !orderbook.asks.length
EmptyOrderbook(book) == Len(book.bids) = 0 \/ Len(book.asks) = 0

\* An error answered as if it were a success without metrics
BookErrorAsSuccess(status) ==
  [status |-> 200, success |-> TRUE, aggregated |-> NoMetrics]

\* orderbook.ts 140, 147-150, 158-161, 181-184: the answers
\* { success: false, error } of the handler
BookError(status) ==
  [status |-> status, success |-> FALSE, aggregated |-> NoMetrics]

BookIdle ==
  /\ orderbook = [bids |-> <<>>, asks |-> <<>>]
  /\ bookResponse = [status |-> 0, success |-> FALSE, aggregated |-> NoMetrics]

BookInit ==
  /\ BookIdle
  /\ request = Request("orderbook", "POST", SymbolBody)
  /\ upstream \in [first : {DepthResponse(b) :
                               b \in [bids : BidSides, asks : AskSides]},
                    each : {NoItems}]
  /\ calls = <<>>
  /\ reply = [status |-> 0]

\* orderbook.ts 135-186: the handler.  aggregateOrderBook throws on an empty
\* side (42-45), which the handler's catch answers with status 500.
OrderBook ==
  /\ request.endpoint = "orderbook"
  /\ bookResponse.status = 0
  /\ IF request.method # "POST"
       THEN /\ bookResponse' = BookError(405)
            /\ UNCHANGED <<orderbook, calls>>
     ELSE IF ~Truthy(Field(request.body, "symbol"))
       THEN /\ bookResponse' = BookError(400)
            /\ UNCHANGED <<orderbook, calls>>
     ELSE
       /\ calls' = Append(calls, Call("getSymbolDepthInfo", <<>>))
       /\ IF upstream.first = Thrown \/ InvalidDepthFormat(upstream.first)
            THEN /\ bookResponse' = BookError(500)
                 /\ UNCHANGED orderbook
          ELSE
            /\ orderbook' =
                 [bids |-> Field(Field(upstream.first, "result"), "bids").a,
                  asks |-> Field(Field(upstream.first, "result"), "asks").a]
            /\ bookResponse' =
                 IF EmptyOrderbook(orderbook')
                   THEN BookError(500)
                   ELSE [status |-> 200, success |-> TRUE,
                         aggregated |-> AggregateOrderBook(orderbook')]
  /\ UNCHANGED <<request, upstream>>

BookNext == OrderBook /\ UNCHANGED <<botVars, agesVars, reply, tailVars>>

(***************************************************************************)
(* The other API routes: src/pages/api/ticker-price.ts, symbol-info.ts,     *)
(* orders.ts and the cancel-orders route (src/unnamed/part_001).            *)
(***************************************************************************)

\* a || b
Or(a, b) == IF Truthy(a) THEN a ELSE b

\* ticker-price.ts 37-41: parseFloat of a number or of a string, for strings
\* without a sign, a decimal point or an exponent
ParseFloat(v) ==
  IF v.t = "string" THEN ParseInt(v.s)
  ELSE IF v.t = "number" THEN v.n
  ELSE NaN

\* ticker-price.ts 35-42: the price found in the response, or null
TickerPriceOf(response) ==
  IF /\ Truthy(response)
     /\ Truthy(Field(response, "result"))
     /\ IsArray(Field(response, "result"))
     /\ Len(Field(response, "result").a) > 0
    THEN LET first == Field(response, "result").a[1]
         IN  NumberValue(ParseFloat(Or(Or(Field(first, "p"),
                                          Field(first, "price")),
                                       NumberValue(Zero))))
  ELSE IF Truthy(response) /\ Truthy(Field(response, "p"))
    THEN NumberValue(ParseFloat(Field(response, "p")))
  ELSE IF Truthy(response) /\ Truthy(Field(response, "price"))
    THEN NumberValue(ParseFloat(Field(response, "price")))
  ELSE Null

\* The answers { success: false, error } and { error } of the routes
Failure(status) == [status |-> status, body |-> [success |-> FALSE]]

ErrorOnly(status) == [status |-> status, body |-> [error |-> TRUE]]

\* ticker-price.ts 12-63: the handler
TickerPrice ==
  /\ request.endpoint = "ticker-price"
  /\ reply.status = 0
  /\ IF request.method # "POST"
       THEN reply' = Failure(405) /\ UNCHANGED calls
     ELSE IF ~Truthy(Field(request.body, "symbol"))
       THEN reply' = Failure(400) /\ UNCHANGED calls
     ELSE
       /\ calls' = Append(calls, Call("getSymbolTickerPrice", <<>>))
       /\ reply' =
            IF upstream.first = Thrown THEN Failure(500)
            ELSE LET price == TickerPriceOf(upstream.first)
                 IN  IF Truthy(price)
                       THEN [status |-> 200,
                             body |-> [success |-> TRUE, price |-> price]]
                       ELSE Failure(500)
  /\ UNCHANGED <<request, upstream>>

\* symbol-info.ts 11-51: the handler
SymbolInfo ==
  /\ request.endpoint = "symbol-info"
  /\ reply.status = 0
  /\ IF request.method # "POST"
       THEN reply' = Failure(405) /\ UNCHANGED calls
     ELSE IF ~Truthy(Field(request.body, "symbol"))
       THEN reply' = Failure(400) /\ UNCHANGED calls
     ELSE
       /\ calls' = Append(calls, Call("getSymbolTradeInfo", <<>>))
       /\ reply' =
            IF upstream.first = Thrown THEN Failure(500)
            ELSE IF Truthy(upstream.first)
                    /\ Truthy(Field(upstream.first, "result"))
              THEN [status |-> 200,
                    body |-> [success |-> TRUE,
                              info |-> Field(upstream.first, "result")]]
            ELSE Failure(500)
  /\ UNCHANGED <<request, upstream>>

\* orders.ts 34-43: the orders of one symbol found in the response
SymbolOrdersOf(response) ==
  IF Truthy(response) /\ Truthy(Field(response, "result"))
    THEN Or(Or(Field(Field(response, "result"), "list"),
               Field(response, "result")),
            ArrayValue(<<>>))
  ELSE IF IsArray(response) THEN response
  ELSE IF Truthy(response) /\ Truthy(Field(response, "list"))
    THEN Field(response, "list")
  ELSE ArrayValue(<<>>)

\* orders.ts 9-57: the handler; the call for a symbol is made inside its own
\* try, whose catch gives the symbol an empty list
Orders ==
  /\ request.endpoint = "orders"
  /\ reply.status = 0
  /\ LET symbols == Field(request.body, "symbols")
     IN  IF request.method # "POST"
           THEN reply' = ErrorOnly(405) /\ UNCHANGED calls
         ELSE IF ~Truthy(symbols) \/ ~IsArray(symbols)
           THEN reply' = ErrorOnly(400) /\ UNCHANGED calls
         ELSE
           /\ calls' = calls \o [i \in 1..Len(symbols.a) |->
                                   Call("getOpenOrders", <<symbols.a[i]>>)]
           /\ reply' =
                [status |-> 200,
                 body |-> [results |->
                   [i \in 1..Len(symbols.a) |->
                      IF upstream.each[i] = Thrown THEN ArrayValue(<<>>)
                      ELSE SymbolOrdersOf(upstream.each[i])]]]
  /\ UNCHANGED <<request, upstream>>

\* The test of part_001 22 without the test for an empty list
MissingCancelInputAllowEmpty(body) ==
  \/ ~Truthy(Field(body, "symbol"))
  \/ ~Truthy(Field(body, "orderIds"))
  \/ ~IsArray(Field(body, "orderIds"))

\* part_001 22: !symbol || !orderIds || !Array.isArray(orderIds) ||
\* orderIds.length === 0
MissingCancelInput(body) ==
  \/ ~Truthy(Field(body, "symbol"))
  \/ ~Truthy(Field(body, "orderIds"))
  \/ ~IsArray(Field(body, "orderIds"))
  \/ Len(Field(body, "orderIds").a) = 0

\* part_001 33-42: the cancelled count of a batch call that returned
BatchCancelled(response, orderIds) ==
  IF Truthy(response) /\ Truthy(Field(response, "result"))
    THEN IF IsArray(Field(response, "result"))
           THEN Len(Field(response, "result").a)
           ELSE Len(orderIds)
  ELSE IF Truthy(response) /\ Field(response, "code") = NumberValue(Zero)
    THEN Len(orderIds)
  ELSE IF Truthy(response) /\ IsArray(response) THEN Len(response.a)
  ELSE Len(orderIds)

\* Every individual call counted as a success
CancelAttempted(outcome) == TRUE

\* part_001 52-63: the success of one individual cancel call
CancelSucceeded(outcome) ==
  /\ outcome # Thrown
  /\ Truthy(outcome)
  /\ \/ Truthy(Field(outcome, "result"))
     \/ Field(outcome, "code") = NumberValue(Zero)
     \/ Truthy(Field(outcome, "success"))

\* part_001 11-80: the handler; when the batch call throws, the catch of
\* part_001 48-73 cancels the orders one by one
CancelOrders ==
  /\ request.endpoint = "cancel-orders"
  /\ reply.status = 0
  /\ IF request.method # "POST"
       THEN reply' = ErrorOnly(405) /\ UNCHANGED calls
     ELSE IF MissingCancelInput(request.body)
       THEN reply' = ErrorOnly(400) /\ UNCHANGED calls
     ELSE
       LET orderIds == Field(request.body, "orderIds").a
       IN  IF upstream.first # Thrown
             THEN /\ calls' = Append(calls, Call("cancelOrderBatch", orderIds))
                  /\ reply' =
                       [status |-> 200,
                        body |-> [success |-> TRUE,
                                  cancelled |->
                                    BatchCancelled(upstream.first, orderIds)]]
           ELSE
             LET cancelled ==
                   Cardinality({i \in 1..Len(orderIds) :
                                  CancelSucceeded(upstream.each[i])})
             IN  /\ calls' =
                      Append(calls, Call("cancelOrderBatch", orderIds))
                        \o [i \in 1..Len(orderIds) |->
                              Call("cancelOrder", <<orderIds[i]>>)]
                 /\ reply' = [status |-> 200,
                              body |-> [success |-> cancelled > 0,
                                        cancelled |-> cancelled]]
  /\ UNCHANGED <<request, upstream>>

(***************************************************************************)
(* The balances route (the second handler of src/pages/api/orderbook.ts).  *)
(* Its outer catch (orderbook.ts 297-302) is not reached: every call of    *)
(* the exchange sits in an inner try.                                      *)
(***************************************************************************)

\* orderbook.ts 211: the tracked currencies
currencies ==
  << <<"D", "E", "U", "R", "O">>, <<"D", "E", "P", "S">>,
     <<"U", "S", "D", "T">>, <<"B", "T", "C">> >>

\* String.prototype.toUpperCase on the letters of the currency names
UpperChar(c) ==
  CASE c = "d" -> "D" [] c = "e" -> "E" [] c = "u" -> "U" [] c = "r" -> "R"
    [] c = "o" -> "O" [] c = "p" -> "P" [] c = "s" -> "S" [] c = "t" -> "T"
    [] c = "b" -> "B" [] c = "c" -> "C" [] OTHER -> c

ToUpperCaseChars(chars) == [i \in 1..Len(chars) |-> UpperChar(chars[i])]

\* orderbook.ts 221-231: the list of balances found in the batch response
BalanceListOf(response) ==
  IF /\ Truthy(response)
     /\ Truthy(Field(response, "result"))
     /\ Truthy(Field(Field(response, "result"), "assets"))
    THEN Field(Field(response, "result"), "assets")
  ELSE IF Truthy(response) /\ Truthy(Field(response, "result"))
    THEN IF IsArray(Field(response, "result"))
           THEN Field(response, "result")
           ELSE ArrayValue(<<Field(response, "result")>>)
  ELSE IF IsArray(response) THEN response
  ELSE IF Truthy(response) /\ Truthy(Field(response, "list"))
    THEN Field(response, "list")
  ELSE IF Truthy(response) /\ Truthy(Field(response, "data"))
    THEN IF IsArray(Field(response, "data"))
           THEN Field(response, "data")
           ELSE ArrayValue(<<Field(response, "data")>>)
  ELSE ArrayValue(<<>>)

\* orderbook.ts 236-238: b[name]?.toUpperCase() === currency.toUpperCase();
\* a name that is neither absent nor a string has no toUpperCase, and the
\* call throws
NameTest(b, name, currency) ==
  LET v == Field(b, name)
  IN  IF v.t \in {"undefined", "null"} THEN "differs"
      ELSE IF v.t = "string"
        THEN IF ToUpperCaseChars(v.s) = ToUpperCaseChars(currency)
               THEN "match" ELSE "differs"
      ELSE "throws"

\* orderbook.ts 235-239: the predicate of find; reading a property of null
\* or undefined throws, and || evaluates the next name only after a miss
IsCurrency(b, currency) ==
  IF b.t \in {"undefined", "null"} THEN "throws"
  ELSE IF NameTest(b, "currency", currency) # "differs"
    THEN NameTest(b, "currency", currency)
  ELSE IF NameTest(b, "asset", currency) # "differs"
    THEN NameTest(b, "asset", currency)
  ELSE NameTest(b, "coin", currency)

RECURSIVE FindIn(_, _)
FindIn(items, currency) ==
  IF items = <<>> THEN Undefined
  ELSE IF IsCurrency(Head(items), currency) = "throws" THEN Thrown
  ELSE IF IsCurrency(Head(items), currency) = "match" THEN Head(items)
  ELSE FindIn(Tail(items), currency)

\* orderbook.ts 235: balanceList.find(...); a value that is no array has no
\* find, and the call throws
FindBalance(balanceList, currency) ==
  IF IsArray(balanceList) THEN FindIn(balanceList.a, currency) ELSE Thrown

\* a || b || c || d || 0
FirstTruthy(v, names) ==
  Or(Or(Or(Or(Field(v, names[1]), Field(v, names[2])), Field(v, names[3])),
        Field(v, names[4])),
     NumberValue(Zero))

\* orderbook.ts 242-246, 270-274: the entry read from a balance
BalanceEntry(balance) ==
  [available |-> ParseFloat(FirstTruthy(balance,
     <<"availableAmount", "available", "free", "avail">>)),
   frozen |-> ParseFloat(FirstTruthy(balance,
     <<"frozenAmount", "frozen", "locked", "freeze">>)),
   total |-> ParseFloat(FirstTruthy(balance,
     <<"totalAmount", "total", "balance", "amount">>))]

\* orderbook.ts 248-252, 276-280, 285-289
ZeroEntry == [available |-> Zero, frozen |-> Zero, total |-> Zero]

\* orderbook.ts 215-254: the entries read from the batch response, or Thrown
\* when the call or the reading of its response throws
BatchBalances(response) ==
  IF response = Thrown THEN Thrown
  ELSE LET found == [i \in 1..Len(currencies) |->
                       FindBalance(BalanceListOf(response), currencies[i])]
       IN  IF \E i \in 1..Len(currencies) : found[i] = Thrown THEN Thrown
           ELSE [i \in 1..Len(currencies) |->
                   IF Truthy(found[i]) THEN BalanceEntry(found[i])
                   ELSE ZeroEntry]

\* The entry of an individual call, a failed call giving no numbers
IndividualBalanceFailing(response) ==
  IF response = Thrown THEN [available |-> NaN, frozen |-> NaN, total |-> NaN]
  ELSE ZeroEntry

\* orderbook.ts 258-290: the entry read from the individual call of a currency
IndividualBalance(response) ==
  IF response = Thrown THEN ZeroEntry
  ELSE LET balance ==
             IF Truthy(response) /\ Truthy(Field(response, "result"))
               THEN Field(response, "result")
             ELSE IF Truthy(response) /\ Truthy(Field(response, "data"))
               THEN Field(response, "data")
             ELSE response
       IN  IF Truthy(balance) THEN BalanceEntry(balance) ELSE ZeroEntry

\* orderbook.ts 201-303: the handler; balances is written as the list of its
\* entries in the order of their insertion
Balance ==
  /\ request.endpoint = "balance"
  /\ reply.status = 0
  /\ IF request.method # "GET"
       THEN reply' = ErrorOnly(405) /\ UNCHANGED calls
     ELSE IF BatchBalances(upstream.first) # Thrown
       THEN /\ calls' = Append(calls, Call("getCurrenciesBalance", currencies))
            /\ reply' =
                 [status |-> 200,
                  body |-> [i \in 1..Len(currencies) |->
                              [currency |-> currencies[i],
                               balance |-> BatchBalances(upstream.first)[i]]]]
     ELSE
       /\ calls' = Append(calls, Call("getCurrenciesBalance", currencies))
                     \o [i \in 1..Len(currencies) |->
                           Call("getCurrencyBalance", <<currencies[i]>>)]
       /\ reply' =
            [status |-> 200,
             body |-> [i \in 1..Len(currencies) |->
                         [currency |-> currencies[i],
                          balance |-> IndividualBalance(upstream.each[i])]]]
  /\ UNCHANGED <<request, upstream>>

(***************************************************************************)
(* The place-order route (the second handler of                            *)
(* src/pages/api/ticker-price.ts) and the payload the bot sends to it      *)
(* (bot.tsx 89-112).  An amount is written in units of 10^-8, the          *)
(* precision the bot rounds to, and the bot's inputs in units of 10^-10.   *)
(***************************************************************************)

DigitChar == <<"0", "1", "2", "3", "4", "5", "6", "7", "8", "9">>

\* The decimal digits of a natural number
RECURSIVE DigitsOf(_)
DigitsOf(k) ==
  IF k < 10 THEN <<DigitChar[k + 1]>>
  ELSE DigitsOf(k \div 10) \o <<DigitChar[(k % 10) + 1]>>

\* The last places digits of k, with leading zeros
RECURSIVE PaddedDigits(_, _)
PaddedDigits(k, places) ==
  IF places = 0 THEN <<>>
  ELSE PaddedDigits(k \div 10, places - 1) \o <<DigitChar[(k % 10) + 1]>>

\* The digits of the fraction k / 10^places for k > 0, without trailing zeros
RECURSIVE FractionDigits(_, _)
FractionDigits(k, places) ==
  IF k % 10 = 0 THEN FractionDigits(k \div 10, places - 1)
  ELSE PaddedDigits(k, places)

\* Number.prototype.toString of an amount of at least 10^-6 (a smaller one is
\* written with an exponent)
DecimalText(n) ==
  LET whole == n.hi \div 100
      fraction == (n.hi % 100) * Base + n.lo
  IN  IF fraction = 0 THEN DigitsOf(whole)
      ELSE DigitsOf(whole) \o <<".">> \o FractionDigits(fraction, 8)

\* ticker-price.ts 125-137: value.toString() of a truthy amount
AmountToString(v) ==
  CASE v.t = "number" -> StringValue(DecimalText(v.n))
    [] v.t = "string" -> v
    [] v.t = "boolean" -> StringValue(<<"t", "r", "u", "e">>)

\* String.prototype.toLowerCase on the letters of the symbols
LowerChar(c) ==
  CASE c = "D" -> "d" [] c = "E" -> "e" [] c = "P" -> "p" [] c = "S" -> "s"
    [] OTHER -> c

ToLowerCaseChars(chars) == [i \in 1..Len(chars) |-> LowerChar(chars[i])]

BuySide == StringValue(<<"B", "U", "Y">>)

SellSide == StringValue(<<"S", "E", "L", "L">>)

\* bot.tsx 84-87: Math.floor(value * 10^8) / 10^8, for a value counted in
\* 10^-10 and a result counted in 10^-8, in exact arithmetic
roundToPrecision(value) ==
  LET units == value.hi * (Base \div 100) + value.lo \div 100
  IN  Num(units \div Base, units % Base)

\* bot.tsx 91-106: the body of the bot's request
orderPayload(symbol, side, buyQty, sellQty) ==
  IF side = "BUY"
    THEN ObjectValue([symbol |-> symbol, side |-> BuySide,
                      quoteQty |-> NumberValue(roundToPrecision(buyQty))])
    ELSE ObjectValue([symbol |-> symbol, side |-> SellSide,
                      quantity |-> NumberValue(roundToPrecision(sellQty))])

\* ticker-price.ts 95: !symbol || !side || (!quantity && !quoteQty)
MissingOrderInput(body) ==
  \/ ~Truthy(Field(body, "symbol"))
  \/ ~Truthy(Field(body, "side"))
  \/ /\ ~Truthy(Field(body, "quantity"))
     /\ ~Truthy(Field(body, "quoteQty"))

\* The parameters with the amount copied and the other field left as it was
orderParamsUnnulled(body) ==
  [symbol |-> StringValue(ToLowerCaseChars(Field(body, "symbol").s)),
   side |-> Field(body, "side"),
   type |-> "MARKET", timeInForce |-> "IOC", bizType |-> "SPOT",
   quantity |-> IF Truthy(Field(body, "quantity"))
                  THEN AmountToString(Field(body, "quantity")) ELSE Undefined,
   quoteQty |-> IF Truthy(Field(body, "quoteQty"))
                  THEN AmountToString(Field(body, "quoteQty")) ELSE Undefined]

\* ticker-price.ts 115-142: the parameters of the market order
orderParams(body) ==
  LET quantity == Field(body, "quantity")
      quoteQty == Field(body, "quoteQty")
  IN  [symbol |-> StringValue(ToLowerCaseChars(Field(body, "symbol").s)),
       side |-> Field(body, "side"),
       type |-> "MARKET", timeInForce |-> "IOC", bizType |-> "SPOT",
       quantity |->
         IF Field(body, "side") = BuySide THEN Null
         ELSE IF Truthy(quantity) THEN AmountToString(quantity)
         ELSE IF Truthy(quoteQty) THEN AmountToString(quoteQty)
         ELSE Undefined,
       quoteQty |->
         IF Field(body, "side") # BuySide THEN Null
         ELSE IF Truthy(quoteQty) THEN AmountToString(quoteQty)
         ELSE IF Truthy(quantity) THEN AmountToString(quantity)
         ELSE Undefined]

\* ticker-price.ts 146-157: the response holds the id of the created order
OrderCreated(response) ==
  /\ Truthy(response)
  /\ \/ Truthy(Field(Field(response, "result"), "orderId"))
     \/ Truthy(Field(response, "orderId"))

\* ticker-price.ts 84-180: the handler; symbol.toLowerCase() of a symbol that
\* is no string throws, and the catch answers 500
PlaceOrder ==
  /\ request.endpoint = "place-order"
  /\ reply.status = 0
  /\ IF request.method # "POST"
       THEN reply' = Failure(405) /\ UNCHANGED calls
     ELSE IF MissingOrderInput(request.body)
       THEN reply' = Failure(400) /\ UNCHANGED calls
     ELSE IF Field(request.body, "side") \notin {BuySide, SellSide}
       THEN reply' = Failure(400) /\ UNCHANGED calls
     ELSE IF Field(request.body, "symbol").t # "string"
       THEN reply' = Failure(500) /\ UNCHANGED calls
     ELSE
       /\ calls' = Append(calls, Call("createOrder",
                                       <<orderParams(request.body)>>))
       /\ reply' =
            IF upstream.first = Thrown THEN Failure(500)
            ELSE IF OrderCreated(upstream.first)
              THEN [status |-> 200, body |-> [success |-> TRUE]]
            ELSE Failure(500)
  /\ UNCHANGED <<request, upstream>>

\* ---- the requests and the exchange's answers of the model ----

Methods == {"GET", "POST"}

\* An answer of the exchange that reports an error: { rc: 1 }, without any of
\* the fields a route looks for
ErrorAnswer == ObjectValue([rc |-> NumberValue(FromInt(1))])

Text(chars) == StringValue(chars)

\* Bodies with a symbol that is absent, null, empty or present
SymbolBodies ==
  {ObjectValue([symbol |-> v]) :
     v \in {Undefined, Null, Text(<<>>), Text(<<"d", "e", "p", "s">>)}}

ProxyBooks ==
  { [bids |-> <<>>, asks |-> << <<1000, 1>> >>],
    [bids |-> << <<1000, 1>> >>, asks |-> << <<1020, 2>> >>] }

DepthAnswers ==
  {Thrown, Null, ErrorAnswer,
   ObjectValue([result |-> ObjectValue([bids |-> ArrayValue(<< <<1000, 1>> >>)])])}
    \cup {DepthResponse(b) : b \in ProxyBooks}

TickerAnswers ==
  {Thrown, Null, ErrorAnswer,
   ObjectValue([result |-> ArrayValue(<<>>)]),
   ObjectValue([result |-> ArrayValue(<<ObjectValue([p |-> Text(<<"4", "2">>)])>>)]),
   ObjectValue([result |-> ArrayValue(<<ObjectValue([price |-> Text(<<"4", "2">>)])>>)]),
   ObjectValue([result |-> ArrayValue(<<ObjectValue([p |-> Text(<<"n", "/", "a">>)])>>)]),
   ObjectValue([result |-> ArrayValue(<<ObjectValue([p |-> Undefined])>>)]),
   ObjectValue([p |-> Text(<<"4", "2">>)]),
   ObjectValue([price |-> NumberValue(FromInt(42))]),
   ObjectValue([price |-> Text(<<"0">>)])}

SymbolInfoAnswers ==
  {Thrown, Null, ErrorAnswer,
   ObjectValue([result |-> ObjectValue([symbol |-> Text(<<"d", "e", "p", "s">>)])]),
   ObjectValue([result |-> Null])}

\* The order lists in the answers of getOpenOrders
ProxyOrderLists ==
  {<<>>, <<Order("deps_btc", MsBefore(60 * 1000), Undefined, Undefined)>>}

OpenOrdersAnswers ==
  {Thrown, Null, ErrorAnswer}
    \cup {OpenOrdersResponse(l) : l \in ProxyOrderLists}
    \cup {ObjectValue([result |-> ObjectValue([list |-> ArrayValue(l)])]) :
            l \in ProxyOrderLists}
    \cup {ArrayValue(l) : l \in ProxyOrderLists}
    \cup {ObjectValue([list |-> ArrayValue(l)]) : l \in ProxyOrderLists}

SymbolNames == {"deps_btc", "deuro_usdt"}

SymbolLists == UNION {[1..n -> SymbolNames] : n \in 0..MaxSymbols}

OrdersBodies ==
  {ObjectValue([symbols |-> v]) : v \in {Undefined, Null, Text(<<"d">>)}}
    \cup {ObjectValue([symbols |-> ArrayValue(l)]) : l \in SymbolLists}

OrderIdNames == {"1", "2"}

OrderIdLists == UNION {[1..n -> OrderIdNames] : n \in 0..MaxOrderIds}

\* Bodies of a cancel request that lack the symbol or the order ids, and
\* bodies with both
CancelBodies ==
  {ObjectValue([symbol |-> v, orderIds |-> ArrayValue(<<"1">>)]) :
     v \in {Undefined, Text(<<>>)}}
    \cup {ObjectValue([symbol |-> Text(<<"d", "e", "p", "s">>), orderIds |-> v]) :
            v \in {Undefined, Null, Text(<<"1">>)}}
    \cup {ObjectValue([symbol |-> Text(<<"d", "e", "p", "s">>),
                       orderIds |-> ArrayValue(l)]) : l \in OrderIdLists}

BatchAnswers ==
  {Thrown, Null, ErrorAnswer,
   ObjectValue([result |-> ArrayValue(<<"1">>)]),
   ObjectValue([result |-> BoolValue(TRUE)]),
   ObjectValue([code |-> NumberValue(Zero)]),
   ArrayValue(<<"1", "2">>)}

CancelAnswers ==
  {Thrown, ErrorAnswer,
   ObjectValue([result |-> BoolValue(TRUE)]),
   ObjectValue([code |-> NumberValue(Zero)]),
   ObjectValue([success |-> BoolValue(TRUE)])}

\* The number of per-item calls a request can lead to
ItemsOf(body) ==
  IF IsArray(Field(body, "orderIds")) THEN Len(Field(body, "orderIds").a)
  ELSE IF IsArray(Field(body, "symbols")) THEN Len(Field(body, "symbols").a)
  ELSE 0

\* ---- the balances of the model ----
Amount(k) == NumberValue(FromInt(k))

UsdtBalance ==
  ObjectValue([currency |-> Text(<<"u", "s", "d", "t">>),
               availableAmount |-> Text(<<"5">>),
               frozenAmount |-> Text(<<"0">>),
               totalAmount |-> Text(<<"5">>)])

BtcBalance ==
  ObjectValue([asset |-> Text(<<"B", "T", "C">>),
               free |-> Amount(3), locked |-> Amount(0), balance |-> Amount(3)])

DepsBalance ==
  ObjectValue([coin |-> Text(<<"d", "e", "p", "s">>),
               avail |-> Amount(7), freeze |-> Amount(2), amount |-> Amount(9)])

\* A balance whose currency is a number
NumberedBalance == ObjectValue([currency |-> Amount(4), available |-> Amount(1)])

BalanceLists ==
  { <<>>, <<UsdtBalance>>, <<BtcBalance, UsdtBalance>>,
    <<DepsBalance, BtcBalance>>, <<UsdtBalance, Null>>, <<NumberedBalance>>,
    <<Text(<<"x">>), DepsBalance>> }

BalanceBatchAnswers ==
  {Thrown, Null, ErrorAnswer, ObjectValue([data |-> UsdtBalance]),
   ObjectValue([result |-> BtcBalance]),
   ObjectValue([result |-> ObjectValue([assets |-> Text(<<"x">>)])])}
    \cup {ObjectValue([result |-> ObjectValue([assets |-> ArrayValue(l)])]) :
            l \in BalanceLists}
    \cup {ObjectValue([list |-> ArrayValue(l)]) :
            l \in {<<>>, <<DepsBalance, BtcBalance>>}}
    \cup {ArrayValue(l) : l \in {<<UsdtBalance>>, <<UsdtBalance, Null>>}}

BalanceAnswers ==
  {Thrown, Null, DepsBalance, ObjectValue([result |-> UsdtBalance]),
   ObjectValue([data |-> BtcBalance])}

\* ---- the orders of the model ----
\* bot.tsx 35-36: the default amounts 0.0000475440 and 10, and amounts below
\* the precision
BuyAmounts == {Num(0, 475440), Num(0, 99), Zero}

SellAmounts == {Num(100000, 0), Num(12345, 678950)}

PairSymbols == {Text(<<"d", "e", "p", "s">>), Text(<<"D", "E", "P", "S">>)}

\* Amounts as a request can hold them: absent, null, 0, a number, a text
AmountValues ==
  {Undefined, Null, NumberValue(Zero), NumberValue(Num(3, 500000)),
   Text(<<"2", ".", "5">>)}

PlaceBodies ==
  {orderPayload(sym, side, b, s) :
     sym \in PairSymbols, side \in Sides, b \in BuyAmounts, s \in SellAmounts}
    \cup {ObjectValue([symbol |-> sym, side |-> side,
                       quantity |-> q, quoteQty |-> qq]) :
            sym \in {Undefined, Amount(7), Text(<<"d", "e", "p", "s">>)},
            side \in {Undefined, BuySide, SellSide,
                      Text(<<"b", "u", "y">>), Text(<<"H", "O", "L", "D">>)},
            q \in AmountValues, qq \in AmountValues}

OrderId == Text(<<"7">>)

PlaceAnswers ==
  {Thrown, Null, ErrorAnswer, ObjectValue([orderId |-> OrderId]),
   ObjectValue([result |-> ObjectValue([orderId |-> OrderId])]),
   ObjectValue([mc |-> Text(<<"O", "R", "D", "E", "R", "_", "0", "0", "8">>)])}

\* One request to one route, and the exchange's answers to its calls
ProxyInit ==
  /\ calls = <<>>
  /\ reply = [status |-> 0]
  /\ \/ /\ request \in {Request("orderbook", m, b) :
                          m \in Methods, b \in SymbolBodies}
        /\ upstream \in [first : DepthAnswers, each : {NoItems}]
     \/ /\ request \in {Request("ticker-price", m, b) :
                          m \in Methods, b \in SymbolBodies}
        /\ upstream \in [first : TickerAnswers, each : {NoItems}]
     \/ /\ request \in {Request("symbol-info", m, b) :
                          m \in Methods, b \in SymbolBodies}
        /\ upstream \in [first : SymbolInfoAnswers, each : {NoItems}]
     \/ /\ request \in {Request("order-ages", m, Undefined) : m \in Methods}
        /\ upstream \in [first : OpenOrdersAnswers, each : {NoItems}]
     \/ /\ request \in {Request("orders", m, b) :
                          m \in Methods, b \in OrdersBodies}
        /\ upstream \in [first : {Thrown},
                         each : [1..ItemsOf(request.body) -> OpenOrdersAnswers]]
     \/ /\ request \in {Request("cancel-orders", m, b) :
                          m \in Methods, b \in CancelBodies}
        /\ \/ upstream \in [first : BatchAnswers \ {Thrown},
                            each : {[i \in 1..ItemsOf(request.body) |-> Thrown]}]
           \/ upstream \in [first : {Thrown},
                            each : [1..ItemsOf(request.body) -> CancelAnswers]]
     \/ /\ request \in {Request("place-order", m, b) :
                          m \in Methods, b \in PlaceBodies}
        /\ upstream \in [first : PlaceAnswers, each : {NoItems}]
     \/ /\ request \in {Request("balance", m, Undefined) : m \in Methods}
        /\ upstream \in [first : BalanceBatchAnswers,
                         each : [1..Len(currencies) -> BalanceAnswers]]

ProxyNext ==
  /\ \/ OrderBook /\ UNCHANGED <<agesVars, reply>>
     \/ OrderAges /\ UNCHANGED <<bookVars, reply>>
     \/ TickerPrice /\ UNCHANGED <<agesVars, bookVars>>
     \/ SymbolInfo /\ UNCHANGED <<agesVars, bookVars>>
     \/ Orders /\ UNCHANGED <<agesVars, bookVars>>
     \/ CancelOrders /\ UNCHANGED <<agesVars, bookVars>>
     \/ Balance /\ UNCHANGED <<agesVars, bookVars>>
     \/ PlaceOrder /\ UNCHANGED <<agesVars, bookVars>>
  /\ UNCHANGED <<botVars, tailVars>>

(***************************************************************************)
(* The orders page: the cut-tails button (src/unnamed/part_000).  Prices    *)
(* are the parsed numbers of the orders, in whole ticks.                   *)
(***************************************************************************)

\* An open order of the pair (part_000 12-19); orderId "" and side "" stand
\* for an absent orderId and an absent side
TailOrder(orderId, side, price) ==
  [orderId |-> orderId, side |-> side, price |-> price]

\* part_000 130, 144: o.side?.toUpperCase()
UpperSide(side) ==
  CASE side = "buy" -> "BUY"
    [] side = "sell" -> "SELL"
    [] OTHER -> side

\* part_000 130, 144: orderList.filter(o => o.side?.toUpperCase() === side)
RECURSIVE FilterSide(_, _)
FilterSide(orderList, side) ==
  IF orderList = <<>> THEN <<>>
  ELSE (IF UpperSide(Head(orderList).side) = side
          THEN <<Head(orderList)>> ELSE <<>>)
         \o FilterSide(Tail(orderList), side)

\* The comparator that ranks by ascending price on both sides
BeforeAscending(a, b, descending) == a.price < b.price

\* part_000 133-137, 147-151: the comparator is negative, a sorts before b:
\* priceB - priceA < 0 for BUY (descending), priceA - priceB < 0 for SELL
Before(a, b, descending) ==
  IF descending THEN b.price - a.price < 0 ELSE a.price - b.price < 0

\* part_000 133, 147: [...orders].sort(comparator), a stable sort: an order is
\* placed before the first one it sorts before
RECURSIVE InsertByPrice(_, _, _)
InsertByPrice(order, sorted, descending) ==
  IF sorted = <<>> THEN <<order>>
  ELSE IF Before(order, Head(sorted), descending) THEN <<order>> \o sorted
  ELSE <<Head(sorted)>> \o InsertByPrice(order, Tail(sorted), descending)

RECURSIVE SortByPrice(_, _)
SortByPrice(orderList, descending) ==
  IF orderList = <<>> THEN <<>>
  ELSE InsertByPrice(orderList[Len(orderList)],
                     SortByPrice(SubSeq(orderList, 1, Len(orderList) - 1),
                                 descending),
                     descending)

\* part_000 138, 152: sorted.slice(ordersToKeep)
SliceFrom(sorted, keep) == SubSeq(sorted, keep + 1, Len(sorted))

\* part_000 139, 153: tail.map(o => o.orderId).filter(id => !!id)
RECURSIVE OrderIdsOf(_)
OrderIdsOf(tail) ==
  IF tail = <<>> THEN <<>>
  ELSE (IF Head(tail).orderId # "" THEN <<Head(tail).orderId>> ELSE <<>>)
         \o OrderIdsOf(Tail(tail))

\* part_000 130-141, 144-155: the order ids of the tail of one side
TailOrderIds(orderList, side, keep) ==
  LET sideOrders == FilterSide(orderList, side)
  IN  IF Len(sideOrders) > keep
        THEN OrderIdsOf(SliceFrom(SortByPrice(sideOrders, side = "BUY"), keep))
        ELSE <<>>

\* part_000 127-155: allOrderIds
AllOrderIds(orderList, keep) ==
  TailOrderIds(orderList, "BUY", keep) \o TailOrderIds(orderList, "SELL", keep)

\* part_000 273-275: hasTailToCut
HasTailToCut(orderList, keep) ==
  \/ Len(FilterSide(orderList, "BUY")) > keep
  \/ Len(FilterSide(orderList, "SELL")) > keep

\* The values parseInt gives for the text of the keep-count input: NaN or an
\* integer
ParsedKeep(isNaN, n) == [nan |-> isNaN, n |-> n]

KeepInputs ==
  {ParsedKeep(TRUE, 0)} \cup {ParsedKeep(FALSE, n) : n \in (0 - 1)..MaxKeep}

\* part_000 258: Math.max(0, parseInt(e.target.value) || 0)
KeepOf(parsed) ==
  LET value == IF parsed.nan \/ parsed.n = 0 THEN 0 ELSE parsed.n
  IN  IF value < 0 THEN 0 ELSE value

\* The orders a pair may have: the order at place i of the list has the
\* orderId i, or none
BuyPrices == {8, 9, 10}

SellPrices == {8, 9}

TailOrderAt(i) ==
  {TailOrder(ToString(i), "BUY", price) : price \in BuyPrices}
    \cup {TailOrder(ToString(i), "sell", price) : price \in SellPrices}
    \cup {TailOrder(ToString(i), "", 9), TailOrder("", "BUY", 8)}

\* Four BUY orders at 10, 9, 8 and 7
BuyLadder ==
  << TailOrder("1", "BUY", 10), TailOrder("2", "BUY", 9),
     TailOrder("3", "BUY", 8), TailOrder("4", "BUY", 7) >>

\* The order lists of n orders
RECURSIVE TailListsOf(_)
TailListsOf(n) ==
  IF n = 0 THEN {<<>>}
  ELSE {Append(l, o) : l \in TailListsOf(n - 1), o \in TailOrderAt(n)}

TailOrderLists ==
  UNION {TailListsOf(n) : n \in 0..MaxTailOrders} \cup {BuyLadder}

NoCancelRequest == [state |-> "idle", orderIds |-> <<>>]

TailsIdle ==
  /\ pairOrders = <<>>
  /\ ordersToKeep = DefaultOrdersToKeep
  /\ cancelRequest = NoCancelRequest

TailsInit ==
  /\ pairOrders \in TailOrderLists
  /\ ordersToKeep = DefaultOrdersToKeep
  /\ cancelRequest = NoCancelRequest

\* part_000 254-260: the keep-count input
SetOrdersToKeep(parsed) ==
  /\ cancelRequest.state = "idle"
  /\ ordersToKeep' = KeepOf(parsed)
  /\ UNCHANGED <<pairOrders, cancelRequest>>

\* part_000 123-164, 309-311: a click on the pair's Cut Tails button, which is
\* enabled when the pair has a tail to cut
CutTails ==
  /\ cancelRequest.state = "idle"
  /\ HasTailToCut(pairOrders, ordersToKeep)
  /\ LET allOrderIds == AllOrderIds(pairOrders, ordersToKeep)
     IN  cancelRequest' =
           IF Len(allOrderIds) > 0
             THEN [state |-> "sent", orderIds |-> allOrderIds]
             ELSE [state |-> "none", orderIds |-> <<>>]
  /\ UNCHANGED <<pairOrders, ordersToKeep>>

TailsNext ==
  /\ \/ \E parsed \in KeepInputs : SetOrdersToKeep(parsed)
     \/ CutTails
  /\ UNCHANGED <<botVars, agesVars, bookVars, proxyVars>>

BotNext ==
  \/ \E s \in Sides : SetStartingSide(s)
  \/ StartClick
  \/ \E p \in pendingStarts, ok \in BOOLEAN : StartResume(p, ok)
  \/ StopBot
  \/ Unmount
  \/ PriceFetched
  \/ \E t \in timers : Tick(t)
  \/ \E s \in inflight, o \in Outcomes : Complete(s, o)
  \/ ClearLogs

\* ---- the bot with a long order log ----
\* The log a run started on SELL leaves after n orders, newest first: its
\* first order failed and the later ones succeeded on alternating sides
RunLog(n) ==
  [i \in 1..n |->
     IF i = n THEN LogEntry("SELL", "rejected")
     ELSE LogEntry(IF (n - i) % 2 = 1 THEN "SELL" ELSE "BUY", "success")]

\* The sides of the successful orders of that run, oldest first
RunSides(n) == [k \in 1..(n - 1) |-> IF k % 2 = 1 THEN "SELL" ELSE "BUY"]

\* The page after one run of LogCap - 1 or LogCap orders that was stopped,
\* with or without a price; the counters of the model count that run as one
\* start and its orders as one submission
LogInit ==
  \E n \in {LogCap - 1, LogCap} :
    /\ isRunning = FALSE
    /\ startingSide = "SELL"
    /\ currentPrice \in BOOLEAN
    /\ orderLogs = RunLog(n)
    /\ cycleCount = n - 1
    /\ intervalRef = 0
    /\ isExecutingRef = FALSE
    /\ currentSideRef = NextSide(RunSides(n)[n - 1])
    /\ timers = {}
    /\ pendingStarts = {}
    /\ inflight = {}
    /\ starts = 1
    /\ submitted = 1
    /\ run = 1
    /\ runStart = "SELL"
    /\ firstSide = "SELL"
    /\ okSides = RunSides(n)
    /\ lastFailed = "NONE"
    /\ stopped = TRUE
    /\ mounted = TRUE

\* No request is under way
ProxyIdle ==
  /\ request = Request("none", "GET", Undefined)
  /\ upstream = [first |-> Thrown, each |-> NoItems]
  /\ calls = <<>>
  /\ reply = [status |-> 0]

Init == BotInit /\ AgesIdle /\ BookIdle /\ ProxyIdle /\ TailsIdle

Next == BotNext /\ UNCHANGED <<agesVars, bookVars, proxyVars, tailVars>>

Spec == Init /\ [][Next]_vars

InitLog == LogInit /\ AgesIdle /\ BookIdle /\ ProxyIdle /\ TailsIdle

SpecLog == InitLog /\ [][Next]_vars

InitAges == BotInit /\ AgesInit /\ BookIdle /\ TailsIdle

SpecAges == InitAges /\ [][AgesNext]_vars

InitBook == BotInit /\ AgesIdle /\ BookInit /\ TailsIdle

InitProxy == BotInit /\ AgesIdle /\ BookIdle /\ ProxyInit /\ TailsIdle

SpecProxy == InitProxy /\ [][ProxyNext]_vars

InitTails == BotInit /\ AgesIdle /\ BookIdle /\ ProxyIdle /\ TailsInit

SpecTails == InitTails /\ [][TailsNext]_vars

SpecBook == InitBook /\ [][BookNext]_vars

(***************************************************************************)
(* Claims about the trading bot (specification Spec).                      *)
(***************************************************************************)

\* A step in which executeCycle starts a placeOrder call
Submits == submitted' = submitted + 1

\* The submission started by such a step
Started == CHOOSE s \in inflight' : s \notin inflight

\* A step in which a placeOrder call completes without success, the component
\* being mounted (an unmounted one keeps no log)
FailsOrder ==
  /\ mounted
  /\ \E s \in inflight : inflight' = inflight \ {s}
  /\ Len(orderLogs') > 0
  /\ orderLogs'[1].status = "error"
  /\ cycleCount' = cycleCount

\* C1: at most one order submission (a placeOrder call started by
\* executeCycle) is in flight at any time.
C1_AtMostOneInFlight == Cardinality(inflight) <= 1

\* C2: when a submission fails, an error entry for it is logged, the failure
\* starts no retry, the pending side is left unchanged, and the next tick of
\* the run that submits an order submits it on that same pending side.
C2_FailedOrderRepeatsSide ==
  [][ /\ FailsOrder =>
          /\ \E s \in inflight \ inflight' :
                orderLogs'[1] = [side |-> s.side, status |-> "error"]
          /\ inflight' \subseteq inflight
          /\ submitted' = submitted
          /\ currentSideRef' = currentSideRef
      /\ (Submits /\ lastFailed # "NONE") => Started.side = lastFailed
    ]_vars

\* C3: within one run the first order submitted is on the starting side the
\* run was started with, and any two consecutive successful orders of the run
\* are on opposite sides.
C3_RunAlternates ==
  /\ firstSide \in {"NONE", runStart}
  /\ \A i \in 1..(Len(okSides) - 1) : okSides[i] # okSides[i + 1]

\* C4: once stopBot has run, no new order submission is started until
\* startBot is invoked again.
C4_NoSubmissionAfterStop == [][Submits => ~stopped]_vars

(***************************************************************************)
(* Claims about the order-age request (specification SpecAges).            *)
(***************************************************************************)

RECURSIVE SumSeq(_)
SumSeq(q) == IF q = <<>> THEN 0 ELSE Head(q) + SumSeq(Tail(q))

Answered == agesResponse.status = 200

\* The entry of the response for a symbol
ResponseFor(symbol) ==
  CHOOSE e \in {agesResponse.body[i] : i \in 1..Len(agesResponse.body)} :
    e.symbol = symbol

\* An order carries a usable timestamp: it names its pair, and one of
\* createTime, time, updateTime holds a value that is a number or parses to one
Usable(order) ==
  /\ order.symbol # ""
  /\ \E v \in {order.createTime, order.time, order.updateTime} : Truthy(v)
  /\ LET v == IF Truthy(order.createTime) THEN order.createTime
              ELSE IF Truthy(order.time) THEN order.time
              ELSE order.updateTime
     IN  v.t = "number" \/ Head(v.s) \in DOMAIN DigitValue

UsableCount(symbol) ==
  Cardinality({i \in 1..Len(orders) :
                 ToUpperCase(orders[i].symbol) = symbol /\ Usable(orders[i])})

\* C5: in the order-age response, for every pair the sum of its bucket counts
\* equals the number of that pair's orders that carry a usable timestamp,
\* which is also the pair's reported totalOrders.
C5_BucketSumIsUsableCount ==
  Answered =>
    \A i \in 1..Len(agesResponse.body) :
      LET e == agesResponse.body[i]
      IN  /\ SumSeq(e.buckets) = UsableCount(e.symbol)
          /\ e.totalOrders = UsableCount(e.symbol)

\* The buckets whose [min, max) range holds a (numeric) age
BucketsHolding(age) ==
  {k \in 1..Len(bucketRanges) : InBucket(age, bucketRanges[k])}

\* C6: the eight bucket ranges are contiguous from 0 to infinity; every
\* non-negative age the request computes lies in exactly one of them; and the
\* count the response gives for a bucket is the number of the pair's ages for
\* which it is the first bucket, in ascending order, whose range holds the age.
C6_BucketsContiguousExhaustive ==
  /\ Len(bucketRanges) = 8
  /\ bucketRanges[1].min = 0
  /\ \A k \in 1..(Len(bucketRanges) - 1) :
       /\ bucketRanges[k].max = bucketRanges[k + 1].min
       /\ bucketRanges[k].min < bucketRanges[k].max
  /\ bucketRanges[Len(bucketRanges)].max = Infinity
  /\ Answered =>
       \A i \in 1..Len(pairMap) :
         LET ages == pairMap[i].ages
             e == ResponseFor(pairMap[i].symbol)
         IN  /\ \A j \in 1..Len(ages) :
                  ~ages[j].nan => Cardinality(BucketsHolding(ages[j])) = 1
             /\ \A k \in 1..Len(bucketRanges) :
                  e.buckets[k] =
                    Cardinality({j \in 1..Len(ages) :
                       /\ k \in BucketsHolding(ages[j])
                       /\ \A m \in 1..(k - 1) : m \notin BucketsHolding(ages[j])})

\* A response that counts two orders of one pair in two different buckets
C6_Witness ==
  /\ Answered
  /\ \E i \in 1..Len(agesResponse.body) :
       /\ agesResponse.body[i].totalOrders = 2
       /\ agesResponse.body[i].buckets[2] = 1
       /\ agesResponse.body[i].buckets[8] = 1

\* The bounds between two buckets, in seconds: Boundaries[k] is the max of
\* bucket k and the min of bucket k + 1
Boundaries == <<60, 300, 900, 3600, 7200, 14400, 86400>>

\* The number of ages of a pair that are exactly `seconds` seconds
AgesExactly(ages, seconds) ==
  Cardinality({j \in 1..Len(ages) : ages[j] = FromInt(seconds * 1000)})

\* C7: an order whose age equals a bucket boundary b is counted in the bucket
\* whose min is b, never in the bucket whose max is b (age exactly 60 s is in
\* the 60-300 bucket).
C7_BoundaryLowerInclusive ==
  Answered =>
    \A i \in 1..Len(pairMap) :
      LET ages == pairMap[i].ages
          e == ResponseFor(pairMap[i].symbol)
      IN  \A k \in 1..Len(Boundaries) :
            /\ e.buckets[k + 1] >= AgesExactly(ages, Boundaries[k])
            /\ e.buckets[k] <= Len(ages) - AgesExactly(ages, Boundaries[k])

\* A pair whose only order is exactly 60 s old, counted in the 60-300 bucket
C7_Witness ==
  /\ Answered
  /\ \E i \in 1..Len(pairMap) :
       /\ pairMap[i].ages = <<FromInt(60 * 1000)>>
       /\ ResponseFor(pairMap[i].symbol).buckets = <<0, 1, 0, 0, 0, 0, 0, 0>>

(***************************************************************************)
(* Claims about the order-book aggregation (specification SpecBook).       *)
(***************************************************************************)

Aggregated == bookResponse.status = 200

Metrics == bookResponse.aggregated

FracEq(x, y) == x.num * y.den = y.num * x.den

\* The largest fraction of a non-empty finite set
Largest(S) == CHOOSE x \in S : \A y \in S : ~FracLt(x, y)

\* The relative price jumps between consecutive levels among the first 20
\* levels of a side (levels 1..20, so jumps 1-2, ..., 19-20), and 0
JumpsWithinTwenty(prices, sign) ==
  {Frac(0, 1)} \cup
    {Frac(sign * (prices[i] - prices[i + 1]), prices[i]) :
       i \in {j \in 1..(Min(20, Len(prices)) - 1) : prices[j] > 0}}

Within2PercentBid(price) ==
  price * 100 * 2 >= 98 * (orderbook.bids[1][1] + orderbook.asks[1][1])

Within2PercentAsk(price) ==
  price * 100 * 2 <= 102 * (orderbook.bids[1][1] + orderbook.asks[1][1])

PrefixBids ==
  CHOOSE n \in 0..Len(orderbook.bids) :
    /\ \A i \in 1..n : Within2PercentBid(orderbook.bids[i][1])
    /\ n < Len(orderbook.bids) => ~Within2PercentBid(orderbook.bids[n + 1][1])

PrefixAsks ==
  CHOOSE n \in 0..Len(orderbook.asks) :
    /\ \A i \in 1..n : Within2PercentAsk(orderbook.asks[i][1])
    /\ n < Len(orderbook.asks) => ~Within2PercentAsk(orderbook.asks[n + 1][1])

\* C9: the 2%-depth quantity of a side is the sum of the quantities of the
\* longest prefix of its levels whose prices are within 2% of the mid price;
\* scanning stops at the first level outside the band, so a later level back
\* inside the band is not counted.
C9_TwoPercentDepthIsPrefixSum ==
  Aggregated =>
    /\ Metrics.cumulativeQty2Percent.bids =
         SumSeq(SubSeq(QuantitiesOf(orderbook.bids), 1, PrefixBids))
    /\ Metrics.cumulativeQty2Percent.asks =
         SumSeq(SubSeq(QuantitiesOf(orderbook.asks), 1, PrefixAsks))

\* A snapshot whose third bid is back inside the band after a second bid
\* outside it: only the first bid is counted
C9_Witness ==
  /\ Aggregated
  /\ orderbook.bids = << <<1000, 1>>, <<979, 4>>, <<980, 2>> >>
  /\ orderbook.asks[1][1] = 1000
  /\ Metrics.cumulativeQty2Percent.bids = 1

\* Band percentages the band depth is compared at
Bands == {0, 1, 2, 3, 5}

BandDepthBids(pct) ==
  CumulativeQtyBids(PricesOf(orderbook.bids), QuantitiesOf(orderbook.bids), 1,
                    MidPrice(orderbook.bids[1][1], orderbook.asks[1][1]), pct)

BandDepthAsks(pct) ==
  CumulativeQtyAsks(PricesOf(orderbook.asks), QuantitiesOf(orderbook.asks), 1,
                    MidPrice(orderbook.bids[1][1], orderbook.asks[1][1]), pct)

\* C10: for a snapshot with non-negative quantities the band depth of each
\* side does not decrease as the percentage band widens, the reported 2% depth
\* being its value at 2%; and it is 0 when the best level lies outside a 0% band.
C10_BandDepthMonotone ==
  Aggregated =>
    /\ Metrics.cumulativeQty2Percent.bids = BandDepthBids(2)
    /\ Metrics.cumulativeQty2Percent.asks = BandDepthAsks(2)
    /\ LET bidDepth == [p \in Bands |-> BandDepthBids(p)]
           askDepth == [p \in Bands |-> BandDepthAsks(p)]
       IN  /\ \A p \in Bands, q \in Bands :
                p <= q => /\ bidDepth[p] <= bidDepth[q]
                          /\ askDepth[p] <= askDepth[q]
           /\ orderbook.bids[1][1] < orderbook.asks[1][1] =>
                bidDepth[0] = 0 /\ askDepth[0] = 0

\* A snapshot whose bid depth grows strictly from the 0% band to the 2% band
\* and on to the 5% band, the best bid lying below the mid price
C10_Witness ==
  /\ Aggregated
  /\ orderbook.bids[1][1] < orderbook.asks[1][1]
  /\ BandDepthBids(0) = 0
  /\ BandDepthBids(0) < BandDepthBids(2)
  /\ BandDepthBids(2) < BandDepthBids(5)

\* C11: the top-20 depth of a side is the sum of the quantities of its first
\* min(20, length) levels, whatever their prices; for a side of fewer than 20
\* levels it is the sum of all the quantities of the side.
C11_TopTwentyDepth ==
  Aggregated =>
    LET bidQty == QuantitiesOf(orderbook.bids)
        askQty == QuantitiesOf(orderbook.asks)
    IN  /\ Metrics.cumulativeQtyLevel20.bids =
             SumSeq(SubSeq(bidQty, 1, Min(20, Len(bidQty))))
        /\ Metrics.cumulativeQtyLevel20.asks =
             SumSeq(SubSeq(askQty, 1, Min(20, Len(askQty))))
        /\ Len(bidQty) < 20 => Metrics.cumulativeQtyLevel20.bids = SumSeq(bidQty)
        /\ Len(askQty) < 20 => Metrics.cumulativeQtyLevel20.asks = SumSeq(askQty)

\* A snapshot with 21 bids of quantity 1 whose top-20 depth is 20, and an ask
\* side of three levels counted whole
C11_Witness ==
  /\ Aggregated
  /\ Len(orderbook.bids) = 21
  /\ SumSeq(QuantitiesOf(orderbook.bids)) = 21
  /\ Metrics.cumulativeQtyLevel20.bids = 20
  /\ Len(orderbook.asks) = 3
  /\ Metrics.cumulativeQtyLevel20.asks = SumSeq(QuantitiesOf(orderbook.asks))

SnapshotWithEmptySide ==
  /\ upstream.first.t = "object"
  /\ ~InvalidDepthFormat(upstream.first)
  /\ \/ Field(Field(upstream.first, "result"), "bids").a = <<>>
     \/ Field(Field(upstream.first, "result"), "asks").a = <<>>

\* C13: when the bid side or the ask side of the depth snapshot is empty, the
\* depth request is answered, with a failure (status 500, success false), and
\* the answer carries no metrics, so none that is NaN or Infinity.
C13_EmptySideFails ==
  (SnapshotWithEmptySide /\ calls # <<>>) =>
    /\ bookResponse.status = 500
    /\ ~bookResponse.success
    /\ bookResponse.aggregated = NoMetrics

\* A snapshot with bids and no asks, answered with status 500
C13_Witness ==
  /\ SnapshotWithEmptySide
  /\ Field(Field(upstream.first, "result"), "bids").a # <<>>
  /\ calls = <<Call("getSymbolDepthInfo", <<>>)>>
  /\ bookResponse.status = 500

(***************************************************************************)
(* Further claims about the order-age request (specification SpecAges).    *)
(***************************************************************************)

\* The first of createTime, time, updateTime of an order that holds a value
\* (one that is not absent, 0 or the empty string), if any
HasTimestamp(order) ==
  \E v \in {order.createTime, order.time, order.updateTime} : Truthy(v)

TimestampOf(order) ==
  IF Truthy(order.createTime) THEN order.createTime
  ELSE IF Truthy(order.time) THEN order.time
  ELSE order.updateTime

\* The number a timestamp denotes
TimestampNumber(order) ==
  LET v == TimestampOf(order)
  IN  IF v.t = "string" THEN ParseInt(v.s) ELSE v.n

\* Order i of the response names its pair and holds a timestamp
Counted(i) == orders[i].symbol # "" /\ HasTimestamp(orders[i])

PairOf(i) == ToUpperCase(orders[i].symbol)

\* The orders of a pair that hold a timestamp
CountedOf(symbol) == {i \in 1..Len(orders) : Counted(i) /\ PairOf(i) = symbol}

\* The age the handler recorded for the counted order i: the ages of a pair
\* are recorded in the order of the orders
RecordedAge(i) ==
  pairMap[EntryIndex(pairMap, PairOf(i))].ages[
    Cardinality({j \in CountedOf(PairOf(i)) : j <= i})]

\* The age in milliseconds of an order created at the instant t: max(0, now - t)
AgeOfInstant(t) == IF JsGe(t, now) THEN Zero ELSE Minus(now, t)

\* Orders a and b give the same instant, a in seconds and b in milliseconds
SameInstant(a, b) ==
  /\ JsLt(TimestampNumber(a), SecondsLimit)
  /\ JsGe(TimestampNumber(b), SecondsLimit)
  /\ Times(TimestampNumber(a), 1000) = TimestampNumber(b)

\* C15: a timestamp whose number is below 1e12 is taken as seconds and
\* multiplied by 1000, any other as milliseconds; so two orders of a pair
\* created at the same instant, one giving it in seconds and one in
\* milliseconds, have the same age and are counted in the same bucket.
C15_SecondsOrMilliseconds ==
  Answered =>
    /\ \A i \in 1..Len(orders) :
         (Counted(i) /\ ~TimestampNumber(orders[i]).nan) =>
           RecordedAge(i) =
             IF JsLt(TimestampNumber(orders[i]), SecondsLimit)
               THEN AgeOfInstant(Times(TimestampNumber(orders[i]), 1000))
               ELSE AgeOfInstant(TimestampNumber(orders[i]))
    /\ \A i \in 1..Len(orders), j \in 1..Len(orders) :
         (Counted(i) /\ Counted(j) /\ SameInstant(orders[i], orders[j])) =>
           /\ RecordedAge(i) = RecordedAge(j)
           /\ PairOf(i) = PairOf(j) =>
                \E k \in BucketsHolding(RecordedAge(i)) :
                  ResponseFor(PairOf(i)).buckets[k] >= 2

\* Two orders of one pair created 60 s before the request, the first giving
\* the instant in seconds and the second in milliseconds, both counted in the
\* 60-300 bucket
C15_Witness ==
  /\ Answered
  /\ Len(orders) = 2
  /\ orders[1].createTime = SecondsBefore(60)
  /\ orders[2].createTime = MsBefore(60 * 1000)
  /\ Len(agesResponse.body) = 1
  /\ agesResponse.body[1].buckets = <<0, 2, 0, 0, 0, 0, 0, 0>>

\* C16: an open order without a createTime, time or updateTime value is
\* skipped: the request is answered with status 200, every pair is reported
\* with the number of its orders that hold a timestamp as totalOrders, its
\* bucket counts sum to no more than that, and a pair none of whose orders
\* holds a timestamp is not reported.
C16_OrderWithoutTimestampSkipped ==
  (request.method = "GET" /\ calls # <<>> /\ upstream.first # Thrown) =>
    /\ agesResponse.status = 200
    /\ \A i \in 1..Len(agesResponse.body) :
         LET e == agesResponse.body[i]
         IN  /\ e.totalOrders = Cardinality(CountedOf(e.symbol))
             /\ SumSeq(e.buckets) <= Cardinality(CountedOf(e.symbol))
    /\ \A i \in 1..Len(orders) :
         orders[i].symbol # "" =>
           (CountedOf(PairOf(i)) # {} <=>
              \E k \in 1..Len(agesResponse.body) :
                agesResponse.body[k].symbol = PairOf(i))

\* A response to two orders of one pair, the first without any timestamp and
\* the second with only an updateTime: the pair is reported with one order
C16_Witness ==
  /\ agesResponse.status = 200
  /\ Len(orders) = 2
  /\ PairOf(1) = PairOf(2)
  /\ ~HasTimestamp(orders[1])
  /\ orders[2].createTime = Undefined
  /\ orders[2].time = Undefined
  /\ HasTimestamp(orders[2])
  /\ Len(agesResponse.body) = 1
  /\ agesResponse.body[1].totalOrders = 1
  /\ SumSeq(agesResponse.body[1].buckets) = 1

\* The characters of the symbols of the responses, as code units
SymbolChars(symbol) ==
  CASE symbol = "DEPS_BTC" -> <<68, 69, 80, 83, 95, 66, 84, 67>>
    [] symbol = "DEURO_USDT" -> <<68, 69, 85, 82, 79, 95, 85, 83, 68, 84>>

\* a comes before b in lexicographic order
RECURSIVE LexLess(_, _)
LexLess(a, b) ==
  IF b = <<>> THEN FALSE
  ELSE IF a = <<>> THEN TRUE
  ELSE IF Head(a) # Head(b) THEN Head(a) < Head(b)
  ELSE LexLess(Tail(a), Tail(b))

\* C17: the order-age response has one entry per pair: no symbol appears in
\* two entries, the totalOrders of an entry is the number of counted orders of
\* its own pair, and the entries are in ascending lexicographic order of
\* their symbols.
C17_GroupedAndSorted ==
  Answered =>
    LET body == agesResponse.body
    IN  /\ \A i \in 1..Len(body), j \in 1..Len(body) :
             i # j => body[i].symbol # body[j].symbol
        /\ \A i \in 1..Len(body) :
             body[i].totalOrders = Cardinality(CountedOf(body[i].symbol))
        /\ \A i \in 1..(Len(body) - 1) :
             LexLess(SymbolChars(body[i].symbol), SymbolChars(body[i + 1].symbol))

\* A response to an order of deuro_usdt followed by an order of deps_btc:
\* pairMap holds DEURO_USDT first, the response DEPS_BTC first
C17_Witness ==
  /\ Answered
  /\ Len(pairMap) = 2
  /\ pairMap[1].symbol = "DEURO_USDT"
  /\ Len(agesResponse.body) = 2
  /\ agesResponse.body[1].symbol = "DEPS_BTC"
  /\ agesResponse.body[2].symbol = "DEURO_USDT"

(***************************************************************************)
(* Claims about the cut-tails button (specification SpecTails).            *)
(***************************************************************************)

\* The places of the pair's orders of a side
PlacesOf(side) ==
  {i \in 1..Len(pairOrders) : UpperSide(pairOrders[i].side) = side}

\* T is a tail of a side for the keep-count: all but ordersToKeep of the
\* side's orders, none of them priced better than an order that is kept
\* (better is higher for BUY, lower for SELL)
IsTail(T, side) ==
  LET places == PlacesOf(side)
  IN  /\ T \subseteq places
      /\ Cardinality(T) =
           IF Cardinality(places) > ordersToKeep
             THEN Cardinality(places) - ordersToKeep ELSE 0
      /\ \A t \in T, k \in places \ T :
           IF side = "BUY" THEN pairOrders[t].price <= pairOrders[k].price
           ELSE pairOrders[t].price >= pairOrders[k].price

\* The order ids of the orders at the places T (an order without an orderId
\* has none to send)
IdsAt(T) == {pairOrders[t].orderId : t \in T} \ {""}

SentIds == {cancelRequest.orderIds[i] : i \in 1..Len(cancelRequest.orderIds)}

\* C14: after a click on Cut Tails the order ids sent for cancellation are those
\* of the orders ranked beyond ordersToKeep on the BUY side, ranked by price
\* descending, and on the SELL side, ranked by price ascending, each once; none
\* of the ordersToKeep best-priced orders of a side is among them.
C14_CutTailsSelection ==
  cancelRequest.state # "idle" =>
    /\ \E buyTail \in SUBSET PlacesOf("BUY"), sellTail \in SUBSET PlacesOf("SELL") :
         /\ IsTail(buyTail, "BUY")
         /\ IsTail(sellTail, "SELL")
         /\ SentIds = IdsAt(buyTail) \cup IdsAt(sellTail)
    /\ Len(cancelRequest.orderIds) = Cardinality(SentIds)
    /\ cancelRequest.state = "sent" <=> cancelRequest.orderIds # <<>>

\* BUY orders at 10, 9, 8 and 7 with a keep-count of 2: the orders at 8 and 7
\* are sent
C14_Witness ==
  /\ pairOrders = BuyLadder
  /\ ordersToKeep = 2
  /\ cancelRequest = [state |-> "sent", orderIds |-> <<"3", "4">>]

(***************************************************************************)
(* Claims about the API routes (specification SpecProxy).                  *)
(***************************************************************************)

\* The status of the response of the route requested, 0 before the response
ResponseStatus ==
  CASE request.endpoint = "orderbook" -> bookResponse.status
    [] request.endpoint = "order-ages" -> agesResponse.status
    [] OTHER -> reply.status

\* A body without a symbol: absent, null or empty
NoSymbol(body) == Field(body, "symbol") \in {Undefined, Null, StringValue(<<>>)}

\* The request lacks an input its route requires
Malformed ==
  CASE request.endpoint \in {"orderbook", "ticker-price", "symbol-info"} ->
         NoSymbol(request.body)
    [] request.endpoint = "cancel-orders" ->
         \/ NoSymbol(request.body)
         \/ Field(request.body, "orderIds").t # "array"
         \/ Field(request.body, "orderIds") = ArrayValue(<<>>)
    [] request.endpoint = "orders" ->
         Field(request.body, "symbols").t # "array"
    [] OTHER -> FALSE

\* C18: a depth, ticker or symbol-info request without a symbol, a cancel
\* request without a symbol or with a missing, non-array or empty order-id
\* list, and an orders request without a symbols array lead to no call to the
\* exchange; sent with the route's method, POST, they are answered with status
\* 400 (with another method the answer is 405, as for any request).
C18_MalformedInputRejected ==
  Malformed =>
    /\ calls = <<>>
    /\ ResponseStatus # 0 =>
         ResponseStatus = IF request.method = "POST" THEN 400 ELSE 405

\* A cancel request with a symbol and an empty order-id list, answered 400
C18_Witness ==
  /\ request.endpoint = "cancel-orders"
  /\ request.method = "POST"
  /\ ~NoSymbol(request.body)
  /\ Field(request.body, "orderIds") = ArrayValue(<<>>)
  /\ reply.status = 400
  /\ calls = <<>>

\* An exchange call fails: it throws, or it answers null or with an error
\* object that has none of the fields the routes read
Failing(outcome) == outcome \in {Thrown, Null, ErrorAnswer}

\* The exchange fails the request: the one call of a one-call route fails;
\* every per-symbol call of an orders request fails; the batch call of a cancel
\* request answers without throwing but with a failing answer, or throws and
\* every individual call fails too
UpstreamFailure ==
  /\ calls # <<>>
  /\ CASE request.endpoint = "orders" ->
            \A i \in 1..Len(upstream.each) : Failing(upstream.each[i])
       [] request.endpoint = "cancel-orders" ->
            /\ Failing(upstream.first)
            /\ upstream.first = Thrown =>
                 \A i \in 1..Len(upstream.each) : Failing(upstream.each[i])
       [] OTHER -> Failing(upstream.first)

\* The response tells the caller that the request failed: an error status,
\* or success: false in its body
SurfacedAsFailure ==
  CASE request.endpoint = "orderbook" ->
         bookResponse.status >= 400 \/ ~bookResponse.success
    [] request.endpoint = "order-ages" -> agesResponse.status >= 400
    [] OTHER ->
         \/ reply.status >= 400
         \/ "success" \in DOMAIN reply.body /\ ~reply.body.success

\* C19: for the depth, ticker price, symbol info, orders, cancel and order-age
\* routes, when the exchange call throws or answers in an unexpected shape
\* the response is a failure, never a successful result.
C19_UpstreamFailureSurfaced ==
  (UpstreamFailure /\ ResponseStatus # 0) => SurfacedAsFailure

\* The places in calls of the individual cancel calls
IndividualCalls == {i \in 1..Len(calls) : calls[i].fn = "cancelOrder"}

\* An individual cancel call succeeded: it returned an answer that holds a
\* result, the code 0 or a true success flag
Succeeded(outcome) ==
  /\ outcome.t = "object"
  /\ \/ Truthy(Field(outcome, "result"))
     \/ Field(outcome, "code") = NumberValue(Zero)
     \/ Truthy(Field(outcome, "success"))

\* C20: in a cancel request individual cancel calls are made only after the
\* batch call, and only when it threw; then there is one individual call per
\* requested order id, in the order of the list, whatever the outcomes of the
\* calls before it; the response's cancelled count is the number of
\* individual calls that succeeded, and its success flag is true exactly when
\* that count is above 0.
C20_CancelFallback ==
  /\ IndividualCalls # {} =>
       /\ request.endpoint = "cancel-orders"
       /\ upstream.first = Thrown
       /\ calls[1].fn = "cancelOrderBatch"
       /\ 1 \notin IndividualCalls
  /\ (request.endpoint = "cancel-orders" /\ calls # <<>>
        /\ upstream.first = Thrown) =>
       LET orderIds == Field(request.body, "orderIds").a
           succeeded == {i \in 1..Len(orderIds) : Succeeded(upstream.each[i])}
       IN  /\ Len(calls) = 1 + Len(orderIds)
           /\ \A i \in 1..Len(orderIds) :
                calls[i + 1] = Call("cancelOrder", <<orderIds[i]>>)
           /\ reply.status = 200
           /\ reply.body.cancelled = Cardinality(succeeded)
           /\ reply.body.success <=> Cardinality(succeeded) > 0

\* A cancel request for three orders whose batch call and first individual
\* call throw and whose other two individual calls succeed: three individual
\* calls, cancelled 2
C20_Witness ==
  /\ request.endpoint = "cancel-orders"
  /\ upstream.first = Thrown
  /\ Len(upstream.each) = 3
  /\ upstream.each[1] = Thrown
  /\ Succeeded(upstream.each[2])
  /\ Succeeded(upstream.each[3])
  /\ Cardinality(IndividualCalls) = 3
  /\ reply.status = 200
  /\ reply.body = [success |-> TRUE, cancelled |-> 2]

(***************************************************************************)
(* Further claims about the order-age request and the order-book           *)
(* aggregation.                                                            *)
(***************************************************************************)

\* The instant an order's timestamp denotes, in milliseconds
InstantOf(order) ==
  IF JsLt(TimestampNumber(order), SecondsLimit)
    THEN Times(TimestampNumber(order), 1000)
    ELSE TimestampNumber(order)

\* The counted orders of a pair created at or after the instant of the request
FutureOf(symbol) ==
  {i \in CountedOf(symbol) :
     /\ ~TimestampNumber(orders[i]).nan
     /\ JsGe(InstantOf(orders[i]), now)}

\* C22: the age of an order is max(0, now - timestamp): no recorded age is
\* negative, an order whose timestamp is not before the server's time has age
\* 0, and it is counted, in the first bucket [0, 60).
C22_FutureOrderHasAgeZero ==
  Answered =>
    /\ \A i \in 1..Len(pairMap) :
         \A j \in 1..Len(pairMap[i].ages) :
           LET age == pairMap[i].ages[j]
           IN  age.nan \/ (age.hi >= 0 /\ age.lo >= 0)
    /\ \A i \in 1..Len(orders) :
         i \in FutureOf(PairOf(i)) =>
           /\ RecordedAge(i) = Zero
           /\ ResponseFor(PairOf(i)).buckets[1] >=
                Cardinality(FutureOf(PairOf(i)))

\* A response to one order created 5 s after the request: counted in the
\* first bucket
C22_Witness ==
  /\ Answered
  /\ Len(orders) = 1
  /\ 1 \in FutureOf(PairOf(1))
  /\ JsLt(now, TimestampNumber(orders[1]))
  /\ agesResponse.body[1].buckets = <<1, 0, 0, 0, 0, 0, 0, 0>>

\* A quotient of the metrics is a finite number
Finite(x) == x.den # 0

\* C30: for a snapshot with non-empty sides the mid price, the spread and the
\* max gaps of the aggregated metrics are finite numbers (no division by
\* zero), also when the best bid and the best ask are both 0; the depths are
\* sums of quantities.
C30_MetricsFinite ==
  Aggregated =>
    /\ Finite(Metrics.midPrice)
    /\ Finite(Metrics.spread)
    /\ Finite(Metrics.maxGapPercent.bids)
    /\ Finite(Metrics.maxGapPercent.asks)
    /\ Metrics.cumulativeQty2Percent.bids \in Nat
    /\ Metrics.cumulativeQty2Percent.asks \in Nat
    /\ Metrics.cumulativeQtyLevel20.bids \in Nat
    /\ Metrics.cumulativeQtyLevel20.asks \in Nat

(***************************************************************************)
(* The balances request.                                                   *)
(***************************************************************************)

BalanceAnswered ==
  request.endpoint = "balance" /\ request.method = "GET" /\ reply.status # 0

\* The individual calls made for the currency
FetchesOf(currency) ==
  {k \in 1..Len(calls) :
     calls[k] = Call("getCurrencyBalance", <<currency>>)}

\* An element of the batch result names the currency
Names(b, currency) ==
  /\ b.t = "object"
  /\ \E name \in {"currency", "asset", "coin"} :
       /\ name \in DOMAIN b.f
       /\ b.f[name].t = "string"
       /\ ToUpperCaseChars(b.f[name].s) = currency

\* The batch call returned, and its answer was read without a fallback
BatchUsed == BalanceAnswered /\ Len(calls) = 1

\* The batch result holds no balance of the currency
AbsentFromBatch(currency) ==
  LET list == BalanceListOf(upstream.first)
  IN  \A k \in 1..Len(list.a) : ~Names(list.a[k], currency)

\* C21: a GET request for the balances is answered 200 with an entry
\* {available, frozen, total} for each of DEURO, DEPS, USDT, BTC.  When the
\* batch call throws each currency is fetched individually exactly once; a
\* currency absent from the batch result, or whose individual call fails, has
\* the entry 0, 0, 0.
C21_BalancesAlwaysAnswered ==
  BalanceAnswered =>
    /\ reply.status = 200
    /\ Len(reply.body) = 4
    /\ \A i \in 1..4 :
         /\ reply.body[i].currency = currencies[i]
         /\ DOMAIN reply.body[i].balance = {"available", "frozen", "total"}
         /\ upstream.first = Thrown =>
              /\ Cardinality(FetchesOf(currencies[i])) = 1
              /\ Len(calls) = 5
         /\ (BatchUsed /\ AbsentFromBatch(currencies[i])) =>
              reply.body[i].balance = ZeroEntry
         /\ (~BatchUsed /\ upstream.each[i] = Thrown) =>
              reply.body[i].balance = ZeroEntry

\* The batch call threw, the call for DEPS returned a balance and the call
\* for USDT failed
C21_Witness ==
  /\ BalanceAnswered
  /\ upstream.first = Thrown
  /\ upstream.each[3] = Thrown
  /\ reply.body[2].balance =
       [available |-> FromInt(7), frozen |-> FromInt(2), total |-> FromInt(9)]
  /\ reply.body[3].balance = ZeroEntry

(***************************************************************************)
(* The place-order request.                                                *)
(***************************************************************************)

\* The market orders sent to the exchange
OrdersSent ==
  {calls[k].args[1] : k \in {j \in 1..Len(calls) : calls[j].fn = "createOrder"}}

\* A field of the order holds an amount: it is a text, not null and not absent
HoldsAmount(v) == v.t = "string" /\ v.s # <<>>

\* The request names no side of BUY and SELL, or holds neither amount
Unplaceable ==
  \/ Field(request.body, "side") \notin {BuySide, SellSide}
  \/ \A name \in {"quantity", "quoteQty"} :
       Field(request.body, name) \in
         {Undefined, Null, NumberValue(Zero), Text(<<>>)}

\* C29: a market order sent to the exchange carries exactly one amount,
\* the one of its side: quoteQty with quantity null for BUY, quantity with
\* quoteQty null for SELL.  A POST request to place-order whose side is
\* neither BUY nor SELL, or that holds neither amount, is answered 400 and
\* no order is sent.
C29_OneAmountMatchingSide ==
  /\ \A o \in OrdersSent :
       /\ o.side \in {BuySide, SellSide}
       /\ o.side = BuySide => HoldsAmount(o.quoteQty) /\ o.quantity = Null
       /\ o.side = SellSide => HoldsAmount(o.quantity) /\ o.quoteQty = Null
  /\ (/\ request.endpoint = "place-order"
      /\ request.method = "POST"
      /\ reply.status # 0
      /\ Unplaceable) =>
       reply.status = 400 /\ calls = <<>>

\* The bot's BUY of its default amount was sent as quoteQty 0.00004754
C29_Witness ==
  /\ request.endpoint = "place-order"
  /\ request.body =
       orderPayload(Text(<<"d", "e", "p", "s">>), "BUY", Num(0, 475440),
                    Num(100000, 0))
  /\ reply.status = 200
  /\ \E o \in OrdersSent :
       /\ o.quoteQty = Text(<<"0", ".", "0", "0", "0", "0", "4", "7", "5", "4">>)
       /\ o.quantity = Null

(***************************************************************************)
(* Further claims about the trading bot.                                   *)
(***************************************************************************)

\* A step in which a placeOrder call completes
Completes == inflight' # inflight /\ inflight' \subseteq inflight

\* A step in which startBot runs setInterval
StartsTimer == ~(timers' \subseteq timers)

\* C23: a timer tick that fires while an order submission is in flight is
\* skipped: no step taken while a submission is in flight starts another
\* submission.
C23_TickDuringSubmissionSkipped ==
  [][inflight # {} => (submitted' = submitted /\ inflight' \subseteq inflight)
    ]_vars

\* C24: isExecutingRef is true in exactly the states in which a submission
\* started by executeCycle has not completed.
C24_GuardMirrorsInFlight == isExecutingRef <=> (inflight # {})

\* C25: at most one interval timer is live, and none is live after stopBot
\* or after the component is unmounted.
C25_AtMostOneTimer ==
  /\ Cardinality(timers) <= 1
  /\ (stopped \/ ~mounted) => timers = {}

\* C26: a submission of an earlier run that completes in a later run leaves
\* the pending side and the cycle count of that run unchanged.
C26_StaleCompletionIgnored ==
  [][\A s \in inflight \ inflight' :
       (mounted /\ isRunning /\ s.run # run) =>
         /\ currentSideRef' = currentSideRef
         /\ cycleCount' = cycleCount
    ]_vars

\* C27: while the component is mounted the cycle count is the number of
\* successful submissions since the last reset: a completion with success
\* adds one, a step of startBot that starts the timer or a Clear Logs that
\* empties the log sets it to 0, and every other step (a failed completion, a
\* skipped tick, a Clear Logs of an empty log, which resets it too) leaves it.
C27_CycleCountCountsSuccesses ==
  [][mounted =>
       IF Completes /\ orderLogs'[1].status = "success"
         THEN cycleCount' = cycleCount + 1
       ELSE IF StartsTimer \/ (orderLogs # <<>> /\ orderLogs' = <<>>)
         THEN cycleCount' = 0
       ELSE \/ cycleCount' = cycleCount
            \/ /\ cycleCount' = 0
               /\ orderLogs = <<>>
               /\ UNCHANGED <<inflight, submitted, timers, isRunning>>
    ]_vars

\* A second run that was started on a count of 48 or 49: one success and then
\* one failure since its start
C27_Witness ==
  /\ mounted
  /\ run = 2
  /\ cycleCount = 1
  /\ Len(okSides) = 1
  /\ inflight = {}
  /\ orderLogs[1].status = "error"
  /\ orderLogs[2].status = "success"

\* C28: the order log holds at most 50 entries, newest first: a completed
\* submission, successful or not, puts one entry for it at the front, the
\* older entries follow in their order, and the oldest is dropped when the
\* log held 50.
C28_LogCappedNewestFirst ==
  /\ [](Len(orderLogs) <= 50)
  /\ [][(mounted /\ Completes) =>
          /\ \E s \in inflight \ inflight' :
               /\ orderLogs'[1].side = s.side
               /\ orderLogs'[1].status \in {"success", "error"}
          /\ Len(orderLogs') = Min(Len(orderLogs) + 1, 50)
          /\ \A i \in 2..Len(orderLogs') : orderLogs'[i] = orderLogs[i - 1]
       ]_vars

\* A full log whose oldest entry, the failed first order, was dropped
C28_Witness ==
  /\ Len(orderLogs) = LogCap
  /\ orderLogs[LogCap].status = "success"

====
